---- MODULE Spec2Model ----
(***************************************************************************)
(* A model of cllama-passthrough: the request proxy pipeline               *)
(* (Handler.ServeHTTP), the identity verifier, and the provider registry.  *)
(*                                                                         *)
(* Go strings are sequences of one-character strings, so that trimming,    *)
(* case folding, cutting and prefix tests are computed the way the Go      *)
(* standard library computes them.                                         *)
(***************************************************************************)
EXTENDS Integers, Sequences, FiniteSets, TLC

(***************************************************************************)
(* The strings package, on sequences of characters.                        *)
(***************************************************************************)

\* unicode.IsSpace on the ASCII range.
IsSpace(c) == c \in {" ", "\t", "\n", "\r"}

\* unicode.ToLower on the letters the model's strings use.
LowerChar(c) ==
    CASE c = "A" -> "a" [] c = "B" -> "b" [] c = "C" -> "c" [] c = "D" -> "d"
      [] c = "E" -> "e" [] c = "F" -> "f" [] c = "G" -> "g" [] c = "H" -> "h"
      [] c = "I" -> "i" [] c = "J" -> "j" [] c = "K" -> "k" [] c = "L" -> "l"
      [] c = "M" -> "m" [] c = "N" -> "n" [] c = "O" -> "o" [] c = "P" -> "p"
      [] c = "Q" -> "q" [] c = "R" -> "r" [] c = "S" -> "s" [] c = "T" -> "t"
      [] c = "U" -> "u" [] c = "V" -> "v" [] c = "W" -> "w" [] c = "X" -> "x"
      [] c = "Y" -> "y" [] c = "Z" -> "z" [] OTHER -> c

\* strings.ToLower
ToLower(s) == [i \in 1..Len(s) |-> LowerChar(s[i])]

\* strings.EqualFold
EqualFold(s, t) == ToLower(s) = ToLower(t)

\* strings.TrimSpace: drops the leading and the trailing white space.
TrimSpace(s) ==
    LET keep == {i \in 1..Len(s) : ~IsSpace(s[i])}
    IN  IF keep = {} THEN <<>>
        ELSE LET lo == CHOOSE i \in keep : \A j \in keep : i <= j
                 hi == CHOOSE i \in keep : \A j \in keep : j <= i
             IN  SubSeq(s, lo, hi)

\* strings.HasPrefix
HasPrefix(s, p) == Len(s) >= Len(p) /\ SubSeq(s, 1, Len(p)) = p

\* strings.TrimPrefix
TrimPrefix(s, p) == IF HasPrefix(s, p) THEN SubSeq(s, Len(p) + 1, Len(s)) ELSE s

\* strings.TrimRight(s, "/")-style: drops every trailing occurrence of c.
TrimRightChar(s, c) ==
    LET keep == {i \in 1..Len(s) : s[i] # c}
    IN  IF keep = {} THEN <<>>
        ELSE SubSeq(s, 1, CHOOSE i \in keep : \A j \in keep : j <= i)

\* strings.Cut(s, sep) for a one-character separator: the text before the
\* FIRST sep, the text after it, and whether sep was found.
Cut(s, sep) ==
    LET at == {i \in 1..Len(s) : s[i] = sep}
    IN  IF at = {} THEN [before |-> s, after |-> <<>>, found |-> FALSE]
        ELSE LET i == CHOOSE k \in at : \A j \in at : k <= j
             IN  [before |-> SubSeq(s, 1, i - 1),
                  after  |-> SubSeq(s, i + 1, Len(s)),
                  found  |-> TRUE]

(***************************************************************************)
(* String literals of the program and of the modelled inputs.              *)
(***************************************************************************)
Empty == <<>>
sBearer == <<"B", "e", "a", "r", "e", "r">>
sBearerSp == <<"b", "e", "a", "r", "e", "r", " ">>
sBasic == <<"B", "a", "s", "i", "c">>
sModel == <<"m", "o", "d", "e", "l">>
sOpenai == <<"o", "p", "e", "n", "a", "i">>
sAnthropic == <<"a", "n", "t", "h", "r", "o", "p", "i", "c">>
sOpenrouter == <<"o", "p", "e", "n", "r", "o", "u", "t", "e", "r">>
sOllama == <<"o", "l", "l", "a", "m", "a">>
sAuthBearer == <<"b", "e", "a", "r", "e", "r">>
sAuthNone == <<"n", "o", "n", "e">>
sAuthXApiKey == <<"x", "-", "a", "p", "i", "-", "k", "e", "y">>
sFmtOpenai == sOpenai
sFmtAnthropic == sAnthropic
sAuthorization == <<"A", "u", "t", "h", "o", "r", "i", "z", "a", "t", "i", "o", "n">>
sContentType == <<"C", "o", "n", "t", "e", "n", "t", "-", "T", "y", "p", "e">>
sApplicationJSON == <<"a", "p", "p", "l", "i", "c", "a", "t", "i", "o", "n", "/", "j", "s", "o", "n">>
sXApiKey == <<"X", "-", "A", "p", "i", "-", "K", "e", "y">>
sV1 == <<"/", "v", "1">>
sV1Slash == <<"/", "v", "1", "/">>
sSlash == <<"/">>

(***************************************************************************)
(* internal/identity: ParseBearer.                                         *)
(***************************************************************************)
ParseFail == [ok |-> FALSE, agentID |-> Empty, secret |-> Empty]

\* Fault: the token is cut on its last colon.
ParseBearer_LastColon(header) ==
    LET h == TrimSpace(header)
        c1 == Cut(h, " ")
        token == TrimSpace(c1.after)
        at == {i \in 1..Len(token) : token[i] = ":"}
        i == CHOOSE j \in at : \A k \in at : k <= j
    IN  IF h = Empty THEN ParseFail
        ELSE IF ~c1.found \/ ~EqualFold(c1.before, sBearer) THEN ParseFail
        ELSE IF token = Empty THEN ParseFail
        ELSE IF at = {} \/ i = 1 \/ i = Len(token) THEN ParseFail
        ELSE [ok |-> TRUE, agentID |-> SubSeq(token, 1, i - 1),
              secret |-> SubSeq(token, i + 1, Len(token))]

\* ParseBearer extracts agent ID and secret from "Bearer <agent-id>:<secret>";
\* it splits on the first colon only.
ParseBearer(header) ==
    LET h == TrimSpace(header)
        c1 == Cut(h, " ")
        token == TrimSpace(c1.after)
        c2 == Cut(token, ":")
    IN  IF h = Empty THEN ParseFail
        ELSE IF ~c1.found \/ ~EqualFold(c1.before, sBearer) THEN ParseFail
        ELSE IF token = Empty THEN ParseFail
        ELSE IF ~c2.found \/ c2.before = Empty \/ c2.after = Empty THEN ParseFail
        ELSE [ok |-> TRUE, agentID |-> c2.before, secret |-> c2.after]

(***************************************************************************)
(* internal/proxy: the handler's pure helpers.                             *)
(***************************************************************************)

\* constantTimeEqual: a length test, then subtle.ConstantTimeCompare.
constantTimeEqual(a, b) ==
    IF Len(a) # Len(b) THEN FALSE
    ELSE \A i \in 1..Len(a) : a[i] = b[i]

\* validateSecret, on the stored metadata token of the loaded context:
\* TRUE when the presented secret is accepted.
validateSecret(token, agentID, presentedSecret) ==
    LET stored0 == TrimSpace(token)
        stored == IF HasPrefix(ToLower(stored0), sBearerSp)
                  THEN TrimSpace(SubSeq(stored0, 8, Len(stored0)))
                  ELSE stored0
        c == Cut(stored, ":")
    IN  IF stored0 = Empty THEN FALSE
        ELSE IF c.found
             THEN IF c.before # Empty /\ c.before # agentID THEN FALSE
                  ELSE constantTimeEqual(c.after, presentedSecret)
             ELSE constantTimeEqual(stored, presentedSecret)

\* splitModel: provider name and upstream model of "<provider>/<model>".
\* Fault: a model without '/' is taken whole as the provider.
splitModel_NoSlashAccepted(model) ==
    LET c == Cut(TrimSpace(model), "/")
    IN  IF c.before = Empty \/ (c.found /\ c.after = Empty)
        THEN [ok |-> FALSE, providerName |-> Empty, upstreamModel |-> Empty]
        ELSE [ok |-> TRUE, providerName |-> ToLower(c.before),
              upstreamModel |-> c.after]

\* Fault: the model is cut on its last '/'.
splitModel_LastSlash(model) ==
    LET m == TrimSpace(model)
        at == {i \in 1..Len(m) : m[i] = "/"}
        i == CHOOSE j \in at : \A k \in at : k <= j
    IN  IF at = {} \/ i = 1 \/ i = Len(m)
        THEN [ok |-> FALSE, providerName |-> Empty, upstreamModel |-> Empty]
        ELSE [ok |-> TRUE, providerName |-> ToLower(SubSeq(m, 1, i - 1)),
              upstreamModel |-> SubSeq(m, i + 1, Len(m))]

splitModel(model) ==
    LET c == Cut(TrimSpace(model), "/")
    IN  IF ~c.found \/ c.before = Empty \/ c.after = Empty
        THEN [ok |-> FALSE, providerName |-> Empty, upstreamModel |-> Empty]
        ELSE [ok |-> TRUE, providerName |-> ToLower(c.before),
              upstreamModel |-> c.after]

\* isHopByHopHeader
isHopByHopHeader(name) ==
    ToLower(name) \in
        { <<"c", "o", "n", "n", "e", "c", "t", "i", "o", "n">>,
          <<"k", "e", "e", "p", "-", "a", "l", "i", "v", "e">>,
          <<"p", "r", "o", "x", "y", "-", "a", "u", "t", "h", "e", "n", "t", "i", "c", "a", "t", "e">>,
          <<"p", "r", "o", "x", "y", "-", "a", "u", "t", "h", "o", "r", "i", "z", "a", "t", "i", "o", "n">>,
          <<"t", "e">>,
          <<"t", "r", "a", "i", "l", "e", "r">>,
          <<"t", "r", "a", "n", "s", "f", "e", "r", "-", "e", "n", "c", "o", "d", "i", "n", "g">>,
          <<"u", "p", "g", "r", "a", "d", "e">> }

(***************************************************************************)
(* net/http.Header: a map from canonical key to a list of values.          *)
(***************************************************************************)
UpperChar(c) ==
    LET ups == {"A", "B", "C", "D", "E", "F", "G", "H", "I", "J", "K", "L", "M",
                "N", "O", "P", "Q", "R", "S", "T", "U", "V", "W", "X", "Y", "Z"}
        m == {u \in ups : LowerChar(u) = c}
    IN  IF m = {} THEN c ELSE CHOOSE u \in m : TRUE

\* textproto.CanonicalMIMEHeaderKey: the first letter and every letter after
\* a hyphen in upper case, the others in lower case.
CanonicalMIMEHeaderKey(k) ==
    [i \in 1..Len(k) |->
        IF i = 1 \/ k[i - 1] = "-" THEN UpperChar(k[i]) ELSE LowerChar(k[i])]

NoHeaders == [k \in {} |-> <<>>]

HeaderGet(h, key) ==
    LET k == CanonicalMIMEHeaderKey(key)
    IN  IF k \in DOMAIN h /\ h[k] # <<>> THEN h[k][1] ELSE Empty

HeaderHas(h, key) == CanonicalMIMEHeaderKey(key) \in DOMAIN h

HeaderSet(h, key, v) ==
    LET k == CanonicalMIMEHeaderKey(key)
    IN  [x \in DOMAIN h \cup {k} |-> IF x = k THEN <<v>> ELSE h[x]]

HeaderAdd(h, key, v) ==
    LET k == CanonicalMIMEHeaderKey(key)
    IN  [x \in DOMAIN h \cup {k} |->
            IF x = k THEN (IF k \in DOMAIN h THEN Append(h[k], v) ELSE <<v>>)
            ELSE h[x]]

HeaderDel(h, key) ==
    LET k == CanonicalMIMEHeaderKey(key)
    IN  [x \in DOMAIN h \ {k} |-> h[x]]

\* copyRequestHeaders(dst, src) with dst empty: every header of src except
\* the hop-by-hop ones and Authorization, values in order.
copyRequestHeaders(src) ==
    LET kept == {k \in DOMAIN src :
                    ~(isHopByHopHeader(k) \/ EqualFold(k, sAuthorization))}
        keys == {CanonicalMIMEHeaderKey(k) : k \in kept}
    IN  [x \in keys |-> src[CHOOSE k \in kept : CanonicalMIMEHeaderKey(k) = x]]

(***************************************************************************)
(* internal/provider: the registry's pure part.                            *)
(***************************************************************************)
sURLOpenai == <<"h", "t", "t", "p", "s", ":", "/", "/", "o", "a", "/", "v", "1">>
sURLAnthropic == <<"h", "t", "t", "p", "s", ":", "/", "/", "a", "n", "/", "v", "1">>
sURLOpenrouter == <<"h", "t", "t", "p", "s", ":", "/", "/", "o", "r", "/", "a", "p", "i", "/", "v", "1">>
sURLOllama == <<"h", "t", "t", "p", ":", "/", "/", "o", "l", "/", "v", "1">>

\* knownProviders[n]; a Go map yields "" for a key it does not hold.
knownProviders(n) ==
    CASE n = sOpenai -> sURLOpenai
      [] n = sAnthropic -> sURLAnthropic
      [] n = sOpenrouter -> sURLOpenrouter
      [] n = sOllama -> sURLOllama
      [] OTHER -> Empty

normalizeName(name) == ToLower(TrimSpace(name))

\* Fault: every provider defaults to bearer.
defaultAuth_AlwaysBearer(provider) == sAuthBearer

defaultAuth(provider) ==
    CASE normalizeName(provider) = sOllama -> sAuthNone
      [] normalizeName(provider) = sAnthropic -> sAuthXApiKey
      [] OTHER -> sAuthBearer

defaultAPIFormat(provider) ==
    IF normalizeName(provider) = sAnthropic THEN sFmtAnthropic ELSE sFmtOpenai

Provider(name, baseURL, apiKey, auth, apiFormat) ==
    [Name |-> name, BaseURL |-> baseURL, APIKey |-> apiKey, Auth |-> auth,
     APIFormat |-> apiFormat]

NoProvider == Provider(Empty, Empty, Empty, Empty, Empty)

\* The stored copy Registry.Set makes of p under the normalized name n.
WithDefaults(n, p) ==
    [Name      |-> n,
     BaseURL   |-> IF p.BaseURL = Empty THEN knownProviders(n) ELSE p.BaseURL,
     APIKey    |-> p.APIKey,
     Auth      |-> IF p.Auth = Empty THEN defaultAuth(n) ELSE p.Auth,
     APIFormat |-> IF p.APIFormat = Empty THEN defaultAPIFormat(n) ELSE p.APIFormat]

\* Fault: the name is trimmed but its case is kept.
RegistrySet_RawName(providers, name, p) ==
    LET n == TrimSpace(name)
    IN  IF n = Empty THEN providers
        ELSE [x \in DOMAIN providers \cup {n} |->
                 IF x = n THEN WithDefaults(n, p) ELSE providers[x]]

\* Registry.Set on the providers map.
RegistrySet(providers, name, p) ==
    LET n == normalizeName(name)
    IN  IF n = Empty THEN providers
        ELSE [x \in DOMAIN providers \cup {n} |->
                 IF x = n THEN WithDefaults(n, p) ELSE providers[x]]

\* Registry.Delete on the providers map.
RegistryDelete(providers, name) ==
    LET n == normalizeName(name)
    IN  [x \in DOMAIN providers \ {n} |-> providers[x]]

\* Registry.Get: a copy of the provider stored under the normalized name.
RegistryGet(providers, name) ==
    LET n == normalizeName(name)
    IN  IF n \in DOMAIN providers
        THEN [ok |-> TRUE, prov |-> providers[n]]
        ELSE [ok |-> FALSE, prov |-> NoProvider]

(***************************************************************************)
(* net/url, as far as buildUpstreamURL uses it: scheme://host/path.        *)
(***************************************************************************)
IsSchemeChar(c) == LowerChar(c) \in
    {"a", "b", "c", "d", "e", "f", "g", "h", "i", "j", "k", "l", "m", "n", "o",
     "p", "q", "r", "s", "t", "u", "v", "w", "x", "y", "z", "+", "-", "."}

\* url.Parse: a leading ':' is an error; a ':' after scheme characters ends
\* the scheme; "//" opens the host, which ends at the next '/'.
urlParse(s) ==
    LET c == Cut(s, ":")
        hasScheme == c.found /\ c.before # Empty
                     /\ \A i \in 1..Len(c.before) : IsSchemeChar(c.before[i])
        rest == IF hasScheme THEN c.after ELSE s
        auth == IF HasPrefix(rest, <<"/", "/">>)
                THEN Cut(SubSeq(rest, 3, Len(rest)), "/")
                ELSE [before |-> Empty, after |-> Empty, found |-> FALSE]
        hasHost == HasPrefix(rest, <<"/", "/">>)
    IN  [err    |-> s # Empty /\ s[1] = ":",
         Scheme |-> IF hasScheme THEN ToLower(c.before) ELSE Empty,
         Host   |-> IF hasHost THEN auth.before ELSE Empty,
         Path   |-> IF hasHost
                    THEN (IF auth.found THEN sSlash \o auth.after ELSE Empty)
                    ELSE rest]

\* buildUpstreamURL
buildUpstreamURL(baseURL, incomingPath, rawQuery) ==
    LET u == urlParse(TrimSpace(baseURL))
        suffix0 == IF HasPrefix(incomingPath, sSlash) THEN incomingPath
                   ELSE sSlash \o incomingPath
        suffix == IF HasPrefix(suffix0, sV1Slash) THEN TrimPrefix(suffix0, sV1)
                  ELSE IF suffix0 = sV1 THEN sSlash
                  ELSE suffix0
        path == TrimRightChar(u.Path, "/") \o suffix
    IN  IF u.err \/ u.Scheme = Empty \/ u.Host = Empty
        THEN [ok |-> FALSE, url |-> Empty]
        ELSE [ok |-> TRUE,
              url |-> u.Scheme \o <<":", "/", "/">> \o u.Host \o path
                      \o (IF rawQuery = Empty THEN Empty ELSE <<"?">> \o rawQuery)]

(***************************************************************************)
(* encoding/json, as far as the handler uses it.  A JSON object is a       *)
(* function from its keys to values; a number is the non-negative integer  *)
(* hi * 2^30 + lo below 2^54.                                              *)
(***************************************************************************)
JStr(s) == [t |-> "str", s |-> s, hi |-> 0, lo |-> 0]
JNum(hi, lo) == [t |-> "num", s |-> Empty, hi |-> hi, lo |-> lo]
NoFields == [k \in {} |-> JStr(Empty)]

\* strconv.ParseFloat to float64 of an integer literal: exact below 2^53,
\* rounded to the nearest even mantissa in [2^53, 2^54).
Float64(v) ==
    IF v.hi < 2^23 \/ v.lo % 2 = 0 THEN v
    ELSE IF (v.lo - 1) % 4 = 0 THEN [v EXCEPT !.lo = v.lo - 1]
    ELSE IF v.lo + 1 = 2^30 THEN [v EXCEPT !.hi = v.hi + 1, !.lo = 0]
    ELSE [v EXCEPT !.lo = v.lo + 1]

\* The Go value json.Unmarshal stores in an `any`: numbers become float64.
DecodeValue(v) == IF v.t = "num" THEN Float64(v) ELSE v

\* json.Unmarshal(inBody, &payload) with payload a map[string]any: an error
\* for text that is not JSON and for JSON that is no object; null leaves
\* the map nil.
Unmarshal(body) ==
    IF body.kind \in {"text", "array"} THEN [ok |-> FALSE, payload |-> NoFields]
    ELSE [ok |-> TRUE,
          payload |-> [k \in DOMAIN body.fields |-> DecodeValue(body.fields[k])]]

\* payload["model"].(string): "" when absent or not a string.
ModelField(payload) ==
    IF "model" \in DOMAIN payload /\ payload["model"].t = "str"
    THEN payload["model"].s ELSE Empty

\* payload["model"] = upstreamModel; json.Marshal(payload)
RewriteModel(payload, upstreamModel) ==
    [k \in DOMAIN payload \cup {"model"} |->
        IF k = "model" THEN JStr(upstreamModel) ELSE payload[k]]

(***************************************************************************)
(* The cost package: usage extraction, pricing, the accumulator.           *)
(*                                                                         *)
(* A response body is a sequence of bytes; a byte is a character, or a     *)
(* whole JSON document written as one symbol ("{usage:{3,1}}"), which      *)
(* DocOf reads.                                                            *)
(***************************************************************************)
\* strings.Contains
Contains(s, sub) ==
    \E i \in 1..(Len(s) - Len(sub) + 1) : SubSeq(s, i, i + Len(sub) - 1) = sub

\* bytes.Split(s, sep) for a one-byte separator.
RECURSIVE Split(_, _)
Split(s, sep) ==
    LET c == Cut(s, sep)
    IN  IF c.found THEN <<c.before>> \o Split(c.after, sep) ELSE <<s>>

\* The concatenation of the byte slices of a sequence.
RECURSIVE Flatten(_)
Flatten(chunks) ==
    IF chunks = <<>> THEN <<>> ELSE Head(chunks) \o Flatten(Tail(chunks))

sNewline == <<"\n">>
sDataPrefix == <<"d", "a", "t", "a", ":", " ">>
sDone == <<"[", "D", "O", "N", "E", "]">>
sEventStream == <<"t", "e", "x", "t", "/", "e", "v", "e", "n", "t", "-", "s", "t", "r", "e", "a", "m">>

\* Usage: prompt_tokens and completion_tokens.
Usage(p, c) == [PromptTokens |-> p, CompletionTokens |-> c]
ZeroUsage == Usage(0, 0)

\* A JSON number, string or absent field as a token count's source text.
Tok(t, n) == [t |-> t, n |-> n]

\* The JSON documents of the model: whether the top level is an object,
\* what "usage" holds, and the token fields of a usage object.
Doc(top, usage, pt, ct) == [top |-> top, usage |-> usage, pt |-> pt, ct |-> ct]
DocOf ==
    [d \in { "{}", "{usage:null}", "{usage:{3,1}}", "{usage:{5,2}}",
             "{usage:{0,0}}", "{usage:{}}", "{usage:{c:4}}", "{usage:x}",
             "{usage:{1.5,1}}", "{usage:{5,-3}}", "[]" } |->
        CASE d = "{}" -> Doc("object", "absent", Tok("absent", 0), Tok("absent", 0))
          [] d = "{usage:null}" -> Doc("object", "null", Tok("absent", 0), Tok("absent", 0))
          [] d = "{usage:{3,1}}" -> Doc("object", "object", Tok("int", 3), Tok("int", 1))
          [] d = "{usage:{5,2}}" -> Doc("object", "object", Tok("int", 5), Tok("int", 2))
          [] d = "{usage:{0,0}}" -> Doc("object", "object", Tok("int", 0), Tok("int", 0))
          [] d = "{usage:{}}" -> Doc("object", "object", Tok("absent", 0), Tok("absent", 0))
          [] d = "{usage:{c:4}}" -> Doc("object", "object", Tok("absent", 0), Tok("int", 4))
          [] d = "{usage:x}" -> Doc("object", "string", Tok("absent", 0), Tok("absent", 0))
          [] d = "{usage:{1.5,1}}" -> Doc("object", "object", Tok("float", 1), Tok("int", 1))
          [] d = "{usage:{5,-3}}" -> Doc("object", "object", Tok("int", 5), Tok("int", -3))
          [] OTHER -> Doc("array", "absent", Tok("absent", 0), Tok("absent", 0))]

\* json.Unmarshal(data, &struct{ Usage *Usage }): an error for text that is
\* not one JSON document, for a top level that is no object, for a usage
\* that is no object and for a token count that is no integer; Usage stays
\* nil when the field is absent or null.
UnmarshalUsage(data) ==
    LET t == TrimSpace(data)
        d == DocOf[t[1]]
        bad == [err |-> TRUE, nil |-> TRUE, usage |-> ZeroUsage]
    IN  IF Len(t) # 1 \/ t[1] \notin DOMAIN DocOf THEN bad
        ELSE IF d.top # "object" THEN bad
        ELSE IF d.usage \in {"absent", "null"}
        THEN [err |-> FALSE, nil |-> TRUE, usage |-> ZeroUsage]
        ELSE IF d.usage # "object" THEN bad
        ELSE IF d.pt.t \notin {"absent", "int"} \/ d.ct.t \notin {"absent", "int"}
        THEN bad
        ELSE [err |-> FALSE, nil |-> FALSE, usage |-> Usage(d.pt.n, d.ct.n)]

\* cost.ExtractUsage
ExtractUsage(body) ==
    LET u == UnmarshalUsage(body)
    IN  IF u.err THEN [usage |-> ZeroUsage, err |-> TRUE]
        ELSE [usage |-> u.usage, err |-> FALSE]

\* The loop of ExtractUsageFromSSE over the lines left, lastUsage so far.
RECURSIVE scanSSE(_, _)
scanSSE(lines, lastUsage) ==
    IF lines = <<>> THEN lastUsage
    ELSE LET line == TrimSpace(Head(lines))
             payload == TrimPrefix(line, sDataPrefix)
             chunk == UnmarshalUsage(payload)
         IN  IF ~HasPrefix(line, sDataPrefix) THEN scanSSE(Tail(lines), lastUsage)
             ELSE IF payload = sDone THEN scanSSE(Tail(lines), lastUsage)
             ELSE IF ~chunk.err /\ ~chunk.nil THEN scanSSE(Tail(lines), chunk.usage)
             ELSE scanSSE(Tail(lines), lastUsage)

\* Fault: the first usage found is kept.
RECURSIVE scanSSE_First(_)
scanSSE_First(lines) ==
    IF lines = <<>> THEN ZeroUsage
    ELSE LET line == TrimSpace(Head(lines))
             payload == TrimPrefix(line, sDataPrefix)
             chunk == UnmarshalUsage(payload)
         IN  IF HasPrefix(line, sDataPrefix) /\ payload # sDone
                /\ ~chunk.err /\ ~chunk.nil
             THEN chunk.usage
             ELSE scanSSE_First(Tail(lines))

ExtractUsageFromSSE_First(stream) ==
    [usage |-> scanSSE_First(Split(stream, "\n")), err |-> FALSE]

\* cost.ExtractUsageFromSSE
ExtractUsageFromSSE(stream) ==
    [usage |-> scanSSE(Split(stream, "\n"), ZeroUsage), err |-> FALSE]

\* Rate: USD per million tokens, in cents.
Rate(in, out) == [InputPerMTok |-> in, OutputPerMTok |-> out]
NoRate == Rate(0, 0)

\* The model keys of DefaultPricing.
mClaudeSonnet4 == <<"c", "l", "a", "u", "d", "e", "-", "s", "o", "n", "n", "e", "t", "-", "4">>
mClaudeSonnet46 == <<"c", "l", "a", "u", "d", "e", "-", "s", "o", "n", "n", "e", "t", "-", "4", "-", "6">>
mClaudeHaiku35 == <<"c", "l", "a", "u", "d", "e", "-", "h", "a", "i", "k", "u", "-", "3", "-", "5">>
mClaudeHaiku45 == <<"c", "l", "a", "u", "d", "e", "-", "h", "a", "i", "k", "u", "-", "4", "-", "5">>
mClaudeOpus4 == <<"c", "l", "a", "u", "d", "e", "-", "o", "p", "u", "s", "-", "4">>
mClaudeOpus46 == <<"c", "l", "a", "u", "d", "e", "-", "o", "p", "u", "s", "-", "4", "-", "6">>
mGpt4o == <<"g", "p", "t", "-", "4", "o">>
mGpt4oMini == <<"g", "p", "t", "-", "4", "o", "-", "m", "i", "n", "i">>
mGpt41 == <<"g", "p", "t", "-", "4", ".", "1">>
mGpt41Mini == <<"g", "p", "t", "-", "4", ".", "1", "-", "m", "i", "n", "i">>
mGpt41Nano == <<"g", "p", "t", "-", "4", ".", "1", "-", "n", "a", "n", "o">>
mO3 == <<"o", "3">>
mO4Mini == <<"o", "4", "-", "m", "i", "n", "i">>
mAnthropicClaudeSonnet4 == <<"a", "n", "t", "h", "r", "o", "p", "i", "c", "/", "c", "l", "a", "u", "d", "e", "-", "s", "o", "n", "n", "e", "t", "-", "4">>
mAnthropicClaudeHaiku35 == <<"a", "n", "t", "h", "r", "o", "p", "i", "c", "/", "c", "l", "a", "u", "d", "e", "-", "h", "a", "i", "k", "u", "-", "3", "-", "5">>
mGoogleGemini25Pro == <<"g", "o", "o", "g", "l", "e", "/", "g", "e", "m", "i", "n", "i", "-", "2", ".", "5", "-", "p", "r", "o">>
mGoogleGemini25Flash == <<"g", "o", "o", "g", "l", "e", "/", "g", "e", "m", "i", "n", "i", "-", "2", ".", "5", "-", "f", "l", "a", "s", "h">>

\* cost.DefaultPricing: provider -> model -> rate.
DefaultPricing ==
    [p \in {sAnthropic, sOpenai, sOpenrouter} |->
        IF p = sAnthropic THEN
            [m \in {mClaudeSonnet4, mClaudeSonnet46, mClaudeHaiku35, mClaudeHaiku45, mClaudeOpus4, mClaudeOpus46} |->
                IF m = mClaudeSonnet4 THEN Rate(300, 1500)
                ELSE IF m = mClaudeSonnet46 THEN Rate(300, 1500)
                ELSE IF m = mClaudeHaiku35 THEN Rate(80, 400)
                ELSE IF m = mClaudeHaiku45 THEN Rate(80, 400)
                ELSE IF m = mClaudeOpus4 THEN Rate(1500, 7500)
                ELSE Rate(1500, 7500)]
        ELSE IF p = sOpenai THEN
            [m \in {mGpt4o, mGpt4oMini, mGpt41, mGpt41Mini, mGpt41Nano, mO3, mO4Mini} |->
                IF m = mGpt4o THEN Rate(250, 1000)
                ELSE IF m = mGpt4oMini THEN Rate(15, 60)
                ELSE IF m = mGpt41 THEN Rate(200, 800)
                ELSE IF m = mGpt41Mini THEN Rate(40, 160)
                ELSE IF m = mGpt41Nano THEN Rate(10, 40)
                ELSE IF m = mO3 THEN Rate(200, 800)
                ELSE Rate(110, 440)]
        ELSE
            [m \in {mAnthropicClaudeSonnet4, mAnthropicClaudeHaiku35, mGoogleGemini25Pro, mGoogleGemini25Flash} |->
                IF m = mAnthropicClaudeSonnet4 THEN Rate(300, 1500)
                ELSE IF m = mAnthropicClaudeHaiku35 THEN Rate(80, 400)
                ELSE IF m = mGoogleGemini25Pro THEN Rate(125, 1000)
                ELSE Rate(15, 60)]]

\* Fault: the first prefix found wins, here the shortest.
Lookup_Shortest(rates, provider, model) ==
    IF provider \notin DOMAIN rates THEN [rate |-> NoRate, ok |-> FALSE]
    ELSE LET models == rates[provider]
             fits == {key \in DOMAIN models :
                         /\ Len(key) > 0
                         /\ Len(key) <= Len(model)
                         /\ SubSeq(model, 1, Len(key)) = key}
         IN  IF model \in DOMAIN models THEN [rate |-> models[model], ok |-> TRUE]
             ELSE IF fits = {} THEN [rate |-> NoRate, ok |-> FALSE]
             ELSE [rate |-> models[CHOOSE key \in fits :
                                      \A other \in fits : Len(key) <= Len(other)],
                   ok |-> TRUE]

\* Pricing.Lookup on the table `rates`: the exact key, else the longest key
\* that is a prefix of model (the loop keeps a key only when it is longer
\* than the best so far, so the map's iteration order does not matter).
Lookup(rates, provider, model) ==
    IF provider \notin DOMAIN rates THEN [rate |-> NoRate, ok |-> FALSE]
    ELSE LET models == rates[provider]
             fits == {key \in DOMAIN models :
                         /\ Len(key) > 0
                         /\ Len(key) <= Len(model)
                         /\ SubSeq(model, 1, Len(key)) = key}
         IN  IF model \in DOMAIN models THEN [rate |-> models[model], ok |-> TRUE]
             ELSE IF fits = {} THEN [rate |-> NoRate, ok |-> FALSE]
             ELSE [rate |-> models[CHOOSE key \in fits :
                                      \A other \in fits : Len(other) <= Len(key)],
                   ok |-> TRUE]

\* A float64 that holds a count of cost units: the count is hi * 2^30 + lo.
\* Sums in the model stay below 2^56.
F64(hi, lo) == [hi |-> hi, lo |-> lo]
FZero == F64(0, 0)

\* The spacing of the float64 values around hi * 2^30: 1 below 2^53, then
\* doubling with every power of two.
Ulp(hi) == IF hi < 2^23 THEN 1 ELSE IF hi < 2^24 THEN 2 ELSE IF hi < 2^25 THEN 4 ELSE 8

\* The float64 nearest to the count v, ties to the even mantissa.
RoundFloat64(v) ==
    LET u == Ulp(v.hi)
        r == v.lo % u
        down == v.lo - r
        up == down + u
        pick == IF 2 * r < u THEN down
                ELSE IF 2 * r > u THEN up
                ELSE IF (down \div u) % 2 = 0 THEN down ELSE up
    IN  IF pick = 2^30 THEN F64(v.hi + 1, 0) ELSE F64(v.hi, pick)

\* a + b in float64.
FAdd(a, b) ==
    LET lo == a.lo + b.lo
    IN  RoundFloat64(F64(a.hi + b.hi + (lo \div 2^30), lo % 2^30))

\* Rate.Compute: tokens/1e6 * rate per million, as the count of units of
\* 1e-8 USD (rates are in cents per million tokens).
Compute(rate, inputTokens, outputTokens) ==
    RoundFloat64(F64(0, inputTokens * rate.InputPerMTok
                        + outputTokens * rate.OutputPerMTok))

\* bucketKey and CostEntry.
bucketKey(agentID, provider, model) == <<agentID, provider, model>>
CostEntry(inTok, outTok, costUSD, count) ==
    [TotalInputTokens |-> inTok, TotalOutputTokens |-> outTok,
     TotalCostUSD |-> costUSD, RequestCount |-> count]
NoBuckets == [k \in {} |-> CostEntry(0, 0, FZero, 0)]

\* The body of Accumulator.Record between Lock and Unlock: the bucket is
\* created on first use, then the four totals are added to.
Record(bs, agentID, provider, model, inputTokens, outputTokens, costUSD) ==
    LET key == bucketKey(agentID, provider, model)
        e == IF key \in DOMAIN bs THEN bs[key] ELSE CostEntry(0, 0, FZero, 0)
    IN  [k \in DOMAIN bs \cup {key} |->
            IF k = key
            THEN CostEntry(e.TotalInputTokens + inputTokens,
                           e.TotalOutputTokens + outputTokens,
                           FAdd(e.TotalCostUSD, costUSD),
                           e.RequestCount + 1)
            ELSE bs[k]]

\* isSSE
isSSE(h) == Contains(HeaderGet(h, sContentType), sEventStream)

\* The characters of the model in the order of their bytes.
Ascii ==
    << " ", "-", ".", "/", "0", "1", "2", "3", "4", "5", "6", "7", "8", "9", ":",
       "A", "B", "C", "D", "E", "F", "G", "H", "I", "J", "K", "L", "M", "N", "O",
       "P", "Q", "R", "S", "T", "U", "V", "W", "X", "Y", "Z", "_",
       "a", "b", "c", "d", "e", "f", "g", "h", "i", "j", "k", "l", "m", "n", "o",
       "p", "q", "r", "s", "t", "u", "v", "w", "x", "y", "z" >>
ByteOf(c) == CHOOSE i \in DOMAIN Ascii : Ascii[i] = c

\* a < b for Go strings: the comparison of their bytes.
StringLess(a, b) ==
    \E i \in 1..Len(b) :
        /\ \A j \in 1..(i - 1) : j <= Len(a) /\ a[j] = b[j]
        /\ \/ i > Len(a)
           \/ i <= Len(a) /\ ByteOf(a[i]) < ByteOf(b[i])

\* The copy *e of a bucket's CostEntry that ByAgent and All append.
EntryOf(bs, k) ==
    [AgentID |-> k[1], Provider |-> k[2], Model |-> k[3],
     TotalInputTokens |-> bs[k].TotalInputTokens,
     TotalOutputTokens |-> bs[k].TotalOutputTokens,
     TotalCostUSD |-> bs[k].TotalCostUSD,
     RequestCount |-> bs[k].RequestCount]

\* The less function of the sort.Slice calls of ByAgent and All.
sortLess(x, y) ==
    StringLess(x.Provider \o <<"/">> \o x.Model, y.Provider \o <<"/">> \o y.Model)

\* The orders in which a range over a Go map may visit the elements of S.
Orders(S) ==
    {q \in [1..Cardinality(S) -> S] : \A i, j \in DOMAIN q : i # j => q[i] # q[j]}

\* Fault: the entries are returned in the order the map was ranged over.
ByAgent_Unsorted(bs, agentID) ==
    Orders({EntryOf(bs, k) : k \in {x \in DOMAIN bs : x[1] = agentID}})

\* Accumulator.ByAgent: the slices it may return.  The map is ranged over in
\* any order and sort.Slice is not stable, so every order that the less
\* function does not contradict is possible.
ByAgent(bs, agentID) ==
    {out \in Orders({EntryOf(bs, k) : k \in {x \in DOMAIN bs : x[1] = agentID}}) :
        \A i, j \in DOMAIN out : i < j => ~sortLess(out[j], out[i])}

\* Accumulator.All: the maps agent -> sorted slice it may return.
All(bs) ==
    LET agents == {k[1] : k \in DOMAIN bs}
        slices == UNION {ByAgent(bs, a) : a \in agents}
    IN  {g \in [agents -> slices] : \A a \in agents : g[a] \in ByAgent(bs, a)}

(***************************************************************************)
(* Bounds of the model.                                                    *)
(***************************************************************************)
\* Requests in flight at once in Spec.
NReq == 2
\* Longest upstream response body, in chunks.
MaxChunks == 2
\* Longest model string of SpecSplit.
MaxLen == 4
\* Concurrent callers of Accumulator.Record in SpecRecord.
NCallers == 3
\* Longest event stream of SpecExtract, in lines.
MaxLines == 3

\* Longest secret of SpecBearer and SpecSecret.
MaxSecret == 3
\* Requests recorded in SpecLedger.
MaxRecords == 3
\* Dashboard requests in flight at once in SpecDashboard.
NUI == 2

(***************************************************************************)
(* State.                                                                  *)
(*   registry  Registry.providers: normalized name -> Provider             *)
(*   req       per inbound request: the position of its ServeHTTP call,    *)
(*             its locals, what it sent upstream and what it wrote to the  *)
(*             client                                                      *)
(*   costTracking  whether the Handler was built WithCostTracking          *)
(*   buckets   Accumulator.buckets: bucketKey -> CostEntry                 *)
(*   mu        Accumulator.mu: 0 when free, else the caller holding it     *)
(*   caller    per direct caller of Accumulator.Record: its position in    *)
(*             the call and the arguments                                  *)
(*   call      the last call of a function made on its own: its arguments  *)
(*             and its result                                              *)
(*   boot      the position of main's run in its startup sequence          *)
(*   providersJSON  the entries of <authDir>/providers.json                *)
(*   environ   the process environment: variable -> value, "" when unset   *)
(*   held      the Provider values callers of the registry hold pointers   *)
(*             to                                                          *)
(*   ui        per dashboard request: the position of its ServeHTTP call   *)
(*   authDir   Registry.authDir, "" when no directory is configured        *)
(*   rmu       Registry.mu: the goroutine holding the write lock, "" when  *)
(*             none, and the goroutines holding the read lock              *)
(*   gor       per goroutine calling the registry on its own: the position *)
(*             in its call, its arguments and what it has read             *)
(***************************************************************************)
VARIABLES registry, req, costTracking, buckets, mu, caller, call,
          boot, providersJSON, environ, held, ui, authDir, rmu, gor

vars == <<registry, req, costTracking, buckets, mu, caller, call,
          boot, providersJSON, environ, held, ui, authDir, rmu, gor>>

hostVars == <<boot, providersJSON, environ, held, ui, authDir, rmu, gor>>

costVars == <<costTracking, buckets, mu, caller, call>>

Reqs == 1..NReq

\* flusher: whether the client's ResponseWriter is an http.Flusher.
NoInput == [method |-> "", headers |-> NoHeaders,
            body |-> [kind |-> "null", fields |-> NoFields],
            path |-> Empty, query |-> Empty, flusher |-> TRUE]

NoOutReq == [url |-> Empty, headers |-> NoHeaders, body |-> NoFields]

NoResp == [status |-> 0, headers |-> NoHeaders, body |-> <<>>]

\* A request before it arrives.  status 0: no status line written yet.
\* audit: the entries the logger wrote for this request, in order.  locks:
\* the locks its goroutine holds.  cancelled: its context is cancelled;
\* observed: a call of the handler has returned the error of that.
IdleReq ==
    [pc |-> "idle", in |-> NoInput,
     agentID |-> Empty, secret |-> Empty, token |-> Empty,
     payload |-> NoFields, requestedModel |-> Empty,
     providerName |-> Empty, upstreamModel |-> Empty,
     prov |-> NoProvider, outReq |-> NoOutReq,
     sent |-> <<>>, resp |-> NoResp, buf |-> <<>>, responseBuf |-> <<>>,
     status |-> 0, statusWrites |-> 0, errMsg |-> "", failedAt |-> "",
     clientBody |-> <<>>, streamErr |-> FALSE,
     upstream |-> NoResp, flushed |-> <<>>, usage |-> ZeroUsage,
     records |-> <<>>, audit |-> <<>>, locks |-> {},
     cancelled |-> FALSE, observed |-> FALSE]

Callers == 1..NCallers

\* The arguments of one Record call.
RecordArgs(agentID, provider, model, inputTokens, outputTokens, costUSD) ==
    [agentID |-> agentID, provider |-> provider, model |-> model,
     inputTokens |-> inputTokens, outputTokens |-> outputTokens,
     costUSD |-> costUSD]
NoArgs == RecordArgs(Empty, Empty, Empty, 0, 0, FZero)

IdleCaller == [pc |-> "idle", args |-> NoArgs]

NoCall == [fn |-> "", provider |-> Empty, model |-> Empty, stream |-> Empty,
           usage |-> ZeroUsage, rate |-> NoRate, ok |-> FALSE]

\* providers.json as main's reg.LoadFromFile finds it at startup, one entry
\* per line: name, base_url, api_key, auth, api_format.
sKey == <<"s", "k">>
sKey2 == <<"k", "2">>
sURLBackend == <<"h", "t", "t", "p", ":", "/", "/", "b", "/", "v", "1", "/">>
sP5 == <<"p", "5">>
sP6 == <<"p", "6">>
sP7 == <<"p", "7">>
sP8 == <<"p", "8">>
sP9 == <<"p", "9">>
StartupFile ==
    << Provider(sOpenai, sURLBackend, sKey, sAuthBearer, Empty),
       Provider(sAnthropic, Empty, sKey, Empty, Empty),
       Provider(sOllama, Empty, Empty, Empty, Empty),
       Provider(sOpenrouter, Empty, Empty, sAuthBearer, Empty),
       Provider(sP5, sURLBackend, sKey, <<" ", "B", "e", "a", "r", "e", "r", " ">>, Empty),
       Provider(sP6, sURLBackend, sKey2, <<" ">>, Empty),
       Provider(sP7, sURLBackend, sKey, <<"b", "a", "s", "i", "c">>, Empty),
       Provider(sP8, Empty, sKey, sAuthBearer, Empty),
       Provider(sP9, sURLBackend, <<" ">>, sAuthBearer, Empty) >>

\* Registry.LoadFromFile: every entry stored under its normalized name with
\* the defaults applied.
RECURSIVE LoadFromFile(_, _)
LoadFromFile(providers, entries) ==
    IF entries = <<>> THEN providers
    ELSE LoadFromFile(RegistrySet(providers, Head(entries).Name, Head(entries)),
                      Tail(entries))

\* envKeyMap and envBaseURLMap: environment variable -> provider name.
envKeyMap ==
    [k \in {"OPENAI_API_KEY", "ANTHROPIC_API_KEY", "OPENROUTER_API_KEY"} |->
        CASE k = "OPENAI_API_KEY" -> sOpenai
          [] k = "ANTHROPIC_API_KEY" -> sAnthropic
          [] OTHER -> sOpenrouter]
envBaseURLMap ==
    [k \in {"OPENAI_BASE_URL", "ANTHROPIC_BASE_URL", "OPENROUTER_BASE_URL",
            "OLLAMA_BASE_URL"} |->
        CASE k = "OPENAI_BASE_URL" -> sOpenai
          [] k = "ANTHROPIC_BASE_URL" -> sAnthropic
          [] k = "OPENROUTER_BASE_URL" -> sOpenrouter
          [] OTHER -> sOllama]

\* os.Getenv yields "" for a variable that is not set.
NoEnv == [k \in DOMAIN envKeyMap \cup DOMAIN envBaseURLMap |-> Empty]

\* One turn of LoadFromEnv's first loop: the base URL variable envKey.
envBaseURL(providers, env, envKey) ==
    LET provName == envBaseURLMap[envKey]
        v == TrimSpace(env[envKey])
        p == IF provName \in DOMAIN providers THEN providers[provName]
             ELSE Provider(provName, Empty, Empty, defaultAuth(provName),
                           defaultAPIFormat(provName))
    IN  IF v = Empty THEN providers
        ELSE [x \in DOMAIN providers \cup {provName} |->
                 IF x = provName THEN [p EXCEPT !.BaseURL = v] ELSE providers[x]]

\* Fault: the key of the environment is taken only when the file gave none.
envAPIKey_FileWins(providers, env, envKey) ==
    LET provName == envKeyMap[envKey]
        v == TrimSpace(env[envKey])
        p == IF provName \in DOMAIN providers THEN providers[provName]
             ELSE Provider(provName, knownProviders(provName), Empty,
                           defaultAuth(provName), defaultAPIFormat(provName))
    IN  IF v = Empty THEN providers
        ELSE [x \in DOMAIN providers \cup {provName} |->
                 IF x = provName
                 THEN [p EXCEPT !.APIKey = IF @ = Empty THEN v ELSE @]
                 ELSE providers[x]]

\* One turn of LoadFromEnv's second loop: the API key variable envKey.
envAPIKey(providers, env, envKey) ==
    LET provName == envKeyMap[envKey]
        v == TrimSpace(env[envKey])
        p == IF provName \in DOMAIN providers THEN providers[provName]
             ELSE Provider(provName, knownProviders(provName), Empty,
                           defaultAuth(provName), defaultAPIFormat(provName))
        q == [p EXCEPT
                !.BaseURL = IF p.BaseURL = Empty THEN knownProviders(provName) ELSE @,
                !.Auth = IF p.Auth = Empty THEN defaultAuth(provName) ELSE @,
                !.APIFormat = IF p.APIFormat = Empty THEN defaultAPIFormat(provName) ELSE @,
                !.APIKey = v]
    IN  IF v = Empty THEN providers
        ELSE [x \in DOMAIN providers \cup {provName} |->
                 IF x = provName THEN q ELSE providers[x]]

\* The two loops of LoadFromEnv over the variables envKeys still to visit.
\* Every variable of a map names a provider of its own, so the order of the
\* range does not show in the result.
RECURSIVE LoadFromEnvBaseURLs(_, _, _)
LoadFromEnvBaseURLs(providers, env, envKeys) ==
    IF envKeys = {} THEN providers
    ELSE LET envKey == CHOOSE k \in envKeys : TRUE
         IN  LoadFromEnvBaseURLs(envBaseURL(providers, env, envKey), env,
                                 envKeys \ {envKey})

RECURSIVE LoadFromEnvKeys(_, _, _)
LoadFromEnvKeys(providers, env, envKeys) ==
    IF envKeys = {} THEN providers
    ELSE LET envKey == CHOOSE k \in envKeys : TRUE
         IN  LoadFromEnvKeys(envAPIKey(providers, env, envKey), env,
                             envKeys \ {envKey})

\* Registry.LoadFromEnv
LoadFromEnv(providers, env) ==
    LoadFromEnvKeys(LoadFromEnvBaseURLs(providers, env, DOMAIN envBaseURLMap),
                    env, DOMAIN envKeyMap)

\* Registry.All: a copy of every provider, by name.
RegistryAll(providers) == [n \in DOMAIN providers |-> providers[n]]

\* Fault: the api_format of a provider is not written.
SaveSnapshot_NoAPIFormat(providers) ==
    {[providers[n] EXCEPT !.Name = n, !.APIFormat = Empty] : n \in DOMAIN providers}

\* What SaveToFile marshals: the fields of every provider under its map
\* key, the Name field left out.  An entry of the file is written here as
\* a Provider whose Name is the key.
SaveSnapshot(providers) ==
    {[providers[n] EXCEPT !.Name = n] : n \in DOMAIN providers}

\* Dashboard requests in flight at once.
UIReqs == 1..NUI

NoForm == [name |-> Empty, action |-> Empty, base_url |-> Empty,
           auth |-> Empty, api_key |-> Empty]

\* A dashboard request before it arrives; snapshot is the copy of the
\* providers SaveToFile took under the read lock.
IdleUI == [pc |-> "idle", form |-> NoForm, snapshot |-> {}, status |-> 0]

\* CLAW_AUTH_DIR, or its default /claw/auth.
sAuthDir == <<"/", "c", "l", "a", "w", "/", "a", "u", "t", "h">>

\* The goroutines that call the registry on their own, by what they call.
Goroutines == {"LoadFromFile", "LoadFromEnv", "Set", "Delete", "Get", "All"}

\* Registry.mu with no holder.
NoLock == [writer |-> "", readers |-> {}]

\* A *Provider in the hands of Get: live while the map still holds the
\* struct it points to, else the struct as it was when the map let go of it.
NoPtr == [live |-> FALSE, val |-> NoProvider]

\* A goroutine outside any call.  Get: name, the pointer p read from the
\* map, the fields of *p still to copy, the copy got, ok; All: the names
\* still to copy and the copies all; LoadFromEnv: the variables keys still
\* to visit.  seen and seenAll: the values the registry has held per name
\* since the call took the lock (NoProvider: none).
IdleGor == [pc |-> "idle", name |-> Empty, p |-> NoPtr, todo |-> <<>>,
            got |-> NoProvider, ok |-> FALSE, seen |-> {},
            names |-> {}, all |-> [n \in {} |-> NoProvider],
            seenAll |-> [n \in {} |-> {}], keys |-> {}]

\* The registry's directory is configured, its lock is free and no goroutine
\* is in a call.
InitLocks ==
    /\ authDir = sAuthDir
    /\ rmu = NoLock
    /\ gor = [g \in Goroutines |-> IdleGor]

\* The process serving: the startup loads are done, nothing is set in the
\* environment, no caller holds a Provider, no dashboard request has arrived.
InitHost ==
    /\ boot = "serving"
    /\ providersJSON = {StartupFile[i] : i \in DOMAIN StartupFile}
    /\ environ = NoEnv
    /\ held = {}
    /\ ui = [u \in UIReqs |-> IdleUI]
    /\ InitLocks

\* NewRegistry, then the startup load; no request has arrived.
\* cost.NewAccumulator and the state of the cost package before any call.
InitCost ==
    /\ buckets = NoBuckets
    /\ mu = 0
    /\ caller = [c \in Callers |-> IdleCaller]
    /\ call = NoCall

Init ==
    /\ registry = LoadFromFile([n \in {} |-> NoProvider], StartupFile)
    /\ req = [r \in Reqs |-> IdleReq]
    /\ costTracking = TRUE
    /\ InitCost
    /\ InitHost

(***************************************************************************)
(* The external collaborators.                                             *)
(***************************************************************************)
\* The agent context directory: agent id -> metadata token.  An agent
\* outside the domain has no readable context.
cA == <<"a">>
cB == <<"b">>
cC == <<"c">>
cD == <<"d">>
cE == <<"e">>
ContextStore ==
    [x \in {cA, cB, cC, cD, cE} |->
        CASE x = cA -> <<"a", ":", "s">>
          [] x = cB -> <<" ", "B", "E", "A", "R", "E", "R", " ", "b", ":", "s", ":", "t", " ">>
          [] x = cC -> <<"a", ":", "s">>
          [] x = cD -> Empty
          [] OTHER  -> <<"s", ":", "t">>]

\* h.loadContext(agentID)
loadContext(agentID) ==
    IF agentID \in DOMAIN ContextStore
    THEN [ok |-> TRUE, token |-> ContextStore[agentID]]
    ELSE [ok |-> FALSE, token |-> Empty]

(***************************************************************************)
(* Handler.ServeHTTP, one action per stage.                                *)
(***************************************************************************)
\* writeJSONError: Content-Type, the status line, {"error":{"message":msg}}.
writeJSONError(q, status, msg) ==
    [q EXCEPT !.status = status, !.statusWrites = @ + 1, !.errMsg = msg]

\* The entries of the audit log.  A request entry has neither status nor
\* latency; only LogResponseWithCost fills the token counts and the cost.
LogRequest(clawID, model) ==
    [Type |-> "request", ClawID |-> clawID, Model |-> model, StatusCode |-> 0,
     hasLatency |-> FALSE, hasCost |-> FALSE,
     TokensIn |-> 0, TokensOut |-> 0, CostUSD |-> FZero]

LogResponse(clawID, model, statusCode) ==
    [Type |-> "response", ClawID |-> clawID, Model |-> model,
     StatusCode |-> statusCode, hasLatency |-> TRUE, hasCost |-> FALSE,
     TokensIn |-> 0, TokensOut |-> 0, CostUSD |-> FZero]

LogError(clawID, model, statusCode) ==
    [Type |-> "error", ClawID |-> clawID, Model |-> model,
     StatusCode |-> statusCode, hasLatency |-> TRUE, hasCost |-> FALSE,
     TokensIn |-> 0, TokensOut |-> 0, CostUSD |-> FZero]

\* The locks a request's goroutine holds, by the name of what they guard.
\* Registry.Get takes the read lock and releases it when it returns;
\* Accumulator.Record does so with its mutex.
RLock(locks) == locks \cup {"registry"}

\* Fault: Get returns with the read lock held.
RUnlock_Missing(locks) == locks

RUnlock(locks) == locks \ {"registry"}

Lock(locks) == locks \cup {"accumulator"}

Unlock(locks) == locks \ {"accumulator"}

\* Registry.mu can be write-locked: no goroutine holds it in any mode.
registryFree ==
    /\ rmu = NoLock
    /\ \A r \in Reqs : "registry" \notin req[r].locks

\* Accumulator.mu can be locked.
accumulatorFree ==
    /\ mu = 0
    /\ \A r \in Reqs : "accumulator" \notin req[r].locks

\* Logger.LogResponseWithCost with a CostInfo.
LogResponseWithCost(clawID, model, statusCode, ci) ==
    [Type |-> "response", ClawID |-> clawID, Model |-> model,
     StatusCode |-> statusCode, hasLatency |-> TRUE, hasCost |-> TRUE,
     TokensIn |-> ci.InputTokens, TokensOut |-> ci.OutputTokens,
     CostUSD |-> ci.CostUSD]

\* Fault: a failure is answered but not logged.
fail_Unlogged(q, status, msg, stage) ==
    [writeJSONError(q, status, msg) EXCEPT !.pc = "Done", !.failedAt = stage]

\* Handler.fail at stage `stage`: the error response and the error entry,
\* and the call returns.  The agent and the model are those known so far.
fail(q, status, msg, stage) ==
    [writeJSONError(q, status, msg) EXCEPT
        !.pc = "Done", !.failedAt = stage,
        !.audit = Append(@, LogError(q.agentID, q.requestedModel, status))]

\* streamBody returned an error: the error entry with the upstream's
\* status, and the call returns.
streamFailed(q) ==
    [q EXCEPT !.pc = "Done", !.streamErr = TRUE, !.failedAt = "StreamResponse",
              !.observed = q.cancelled,
              !.audit = Append(@, LogError(q.agentID, q.requestedModel,
                                           q.resp.status))]

\* h.logger.LogResponse at the end of ServeHTTP.
logResponse(q) ==
    [q EXCEPT !.audit = Append(@, LogResponse(q.agentID, q.requestedModel,
                                              q.resp.status))]

\* The server hands the request to ServeHTTP.
Arrive(r, in) ==
    /\ req[r].pc = "idle"
    /\ req' = [req EXCEPT ![r] = [@ EXCEPT !.pc = "Authenticate", !.in = in]]
    /\ UNCHANGED <<registry, costVars, hostVars>>

\* The method check and identity.ParseBearer.
Authenticate(r) ==
    LET q == req[r]
        b == ParseBearer(HeaderGet(q.in.headers, sAuthorization))
    IN  /\ q.pc = "Authenticate"
        /\ req' = [req EXCEPT ![r] =
              IF q.in.method # "POST"
              THEN fail(q, 405, "method not allowed", "Method")
              ELSE IF ~b.ok
              THEN fail(q, 401, "invalid bearer token", "Authenticate")
              ELSE [q EXCEPT !.pc = "ResolveIdentity",
                             !.agentID = b.agentID, !.secret = b.secret]]
        /\ UNCHANGED <<registry, costVars, hostVars>>

\* Fault: a context that does not load is answered 401.
ResolveIdentity_401(r) ==
    LET q == req[r]
        c == loadContext(q.agentID)
    IN  /\ q.pc = "ResolveIdentity"
        /\ req' = [req EXCEPT ![r] =
              IF ~c.ok
              THEN fail(q, 401, "agent context not found", "ResolveIdentity")
              ELSE [q EXCEPT !.pc = "ValidateSecret", !.token = c.token]]
        /\ UNCHANGED <<registry, costVars, hostVars>>

\* h.loadContext(agentID)
ResolveIdentity(r) ==
    LET q == req[r]
        c == loadContext(q.agentID)
    IN  /\ q.pc = "ResolveIdentity"
        /\ req' = [req EXCEPT ![r] =
              IF ~c.ok
              THEN fail(q, 403, "agent context not found", "ResolveIdentity")
              ELSE [q EXCEPT !.pc = "ValidateSecret", !.token = c.token]]
        /\ UNCHANGED <<registry, costVars, hostVars>>

\* Fault: the presented secret is not compared.
ValidateSecret_Skipped(r) ==
    /\ req[r].pc = "ValidateSecret"
    /\ req' = [req EXCEPT ![r] = [@ EXCEPT !.pc = "ParseBody"]]
    /\ UNCHANGED <<registry, costVars, hostVars>>

\* validateSecret(ctx, agentID, secret)
ValidateSecret(r) ==
    LET q == req[r]
    IN  /\ q.pc = "ValidateSecret"
        /\ req' = [req EXCEPT ![r] =
              IF ~validateSecret(q.token, q.agentID, q.secret)
              THEN fail(q, 403, "invalid agent secret", "ValidateSecret")
              ELSE [q EXCEPT !.pc = "ParseBody"]]
        /\ UNCHANGED <<registry, costVars, hostVars>>

\* io.ReadAll, json.Unmarshal, and the model field.
ParseBody(r) ==
    LET q == req[r]
        u == Unmarshal(q.in.body)
        requestedModel == TrimSpace(ModelField(u.payload))
    IN  /\ q.pc = "ParseBody"
        /\ req' = [req EXCEPT ![r] =
              IF q.in.body.kind = "readerr"
              THEN fail(q, 400, "failed to read request body", "ParseBody")
              ELSE IF ~u.ok
              THEN fail(q, 400, "invalid JSON body", "ParseBody")
              ELSE IF requestedModel = Empty
              THEN fail(q, 400, "missing model field", "ParseBody")
              ELSE [q EXCEPT !.pc = "SplitModel", !.payload = u.payload,
                             !.requestedModel = requestedModel]]
        /\ UNCHANGED <<registry, costVars, hostVars>>

\* splitModel(requestedModel)
\* Fault: the provider is looked up before the model's shape is checked.
SplitModel_ResolvesFirst(r) ==
    LET q == req[r]
        m == splitModel(q.requestedModel)
    IN  /\ q.pc = "SplitModel"
        /\ req' = [req EXCEPT ![r] =
              IF ~RegistryGet(registry, m.providerName).ok
              THEN fail(q, 502, "unknown provider", "ResolveProvider")
              ELSE IF ~m.ok
              THEN fail(q, 400, "model must be provider-prefixed: <provider>/<model>",
                        "SplitModel")
              ELSE [q EXCEPT !.pc = "ResolveProvider",
                             !.providerName = m.providerName,
                             !.upstreamModel = m.upstreamModel]]
        /\ UNCHANGED <<registry, costVars, hostVars>>

SplitModel(r) ==
    LET q == req[r]
        m == splitModel(q.requestedModel)
    IN  /\ q.pc = "SplitModel"
        /\ req' = [req EXCEPT ![r] =
              IF ~m.ok
              THEN fail(q, 400, "model must be provider-prefixed: <provider>/<model>",
                        "SplitModel")
              ELSE [q EXCEPT !.pc = "ResolveProvider",
                             !.providerName = m.providerName,
                             !.upstreamModel = m.upstreamModel]]
        /\ UNCHANGED <<registry, costVars, hostVars>>

\* Fault: the error of registry.Get is dropped.
ResolveProvider_ErrIgnored(r) ==
    LET q == req[r]
        g == RegistryGet(registry, q.providerName)
    IN  /\ q.pc = "ResolveProvider"
        /\ req' = [req EXCEPT ![r] =
              [q EXCEPT !.pc = "BuildUpstreamRequest", !.prov = g.prov]]
        /\ UNCHANGED <<registry, costVars, hostVars>>

\* h.registry.Get(providerName): waits for the read lock, copies, unlocks.
ResolveProvider(r) ==
    LET q == [req[r] EXCEPT !.locks = RUnlock(RLock(@))]
        g == RegistryGet(registry, q.providerName)
    IN  /\ q.pc = "ResolveProvider"
        /\ rmu.writer = ""
        /\ req' = [req EXCEPT ![r] =
              IF ~g.ok
              THEN fail(q, 502, "unknown provider", "ResolveProvider")
              ELSE [q EXCEPT !.pc = "BuildUpstreamRequest", !.prov = g.prov]]
        /\ UNCHANGED <<registry, costVars, hostVars>>

\* The model rewrite, json.Marshal, buildUpstreamURL, http.NewRequest,
\* copyRequestHeaders and the Content-Type of the outbound request.
BuildUpstreamRequest(r) ==
    LET q == req[r]
        outBody == RewriteModel(q.payload, q.upstreamModel)
        t == buildUpstreamURL(q.prov.BaseURL, q.in.path, q.in.query)
    IN  /\ q.pc = "BuildUpstreamRequest"
        /\ req' = [req EXCEPT ![r] =
              IF ~t.ok
              THEN fail(q, 502, "invalid provider URL", "BuildUpstreamRequest")
              ELSE [q EXCEPT !.pc = "InjectCredential",
                             !.outReq = [url |-> t.url,
                                         headers |-> HeaderSet(copyRequestHeaders(q.in.headers),
                                                               sContentType, sApplicationJSON),
                                         body |-> outBody]]]
        /\ UNCHANGED <<registry, costVars, hostVars>>

\* Fault: an auth mode the switch does not know is handled as bearer.
injectCredential_DefaultBearer(prov, headers) ==
    LET mode == ToLower(TrimSpace(prov.Auth))
    IN  IF mode = sAuthNone
        THEN [ok |-> TRUE, msg |-> "", headers |-> HeaderDel(headers, sAuthorization)]
        ELSE IF TrimSpace(prov.APIKey) = Empty
        THEN [ok |-> FALSE, msg |-> "provider API key not configured",
              headers |-> headers]
        ELSE [ok |-> TRUE, msg |-> "",
              headers |-> HeaderSet(headers, sAuthorization,
                                    sBearer \o <<" ">> \o prov.APIKey)]

\* The credential switch on prov.Auth: the outbound headers, or the message
\* of the 502 it fails with.
injectCredential(prov, headers) ==
    LET mode == ToLower(TrimSpace(prov.Auth))
    IN  IF mode = Empty \/ mode = sAuthBearer
        THEN IF TrimSpace(prov.APIKey) = Empty
             THEN [ok |-> FALSE, msg |-> "provider API key not configured",
                   headers |-> headers]
             ELSE [ok |-> TRUE, msg |-> "",
                   headers |-> HeaderSet(headers, sAuthorization,
                                         sBearer \o <<" ">> \o prov.APIKey)]
        ELSE IF mode = sAuthNone
        THEN [ok |-> TRUE, msg |-> "", headers |-> HeaderDel(headers, sAuthorization)]
        ELSE [ok |-> FALSE, msg |-> "unsupported provider auth", headers |-> headers]

\* Fault: mode "none" hands the client's Authorization header on.
InjectCredential_ClientAuthKept(r) ==
    LET q == req[r]
        c == injectCredential(q.prov, q.outReq.headers)
        mine == HeaderGet(q.in.headers, sAuthorization)
    IN  /\ q.pc = "InjectCredential"
        /\ req' = [req EXCEPT ![r] =
              IF ~c.ok
              THEN fail(q, 502, c.msg, "InjectCredential")
              ELSE [q EXCEPT !.pc = "Forward",
                             !.outReq.headers =
                                 IF sAuthorization \in DOMAIN c.headers
                                 THEN c.headers
                                 ELSE HeaderSet(c.headers, sAuthorization, mine)]]
        /\ UNCHANGED <<registry, costVars, hostVars>>

InjectCredential(r) ==
    LET q == req[r]
        c == injectCredential(q.prov, q.outReq.headers)
    IN  /\ q.pc = "InjectCredential"
        /\ req' = [req EXCEPT ![r] =
              IF ~c.ok
              THEN fail(q, 502, c.msg, "InjectCredential")
              ELSE [q EXCEPT !.pc = "Forward", !.outReq.headers = c.headers]]
        /\ UNCHANGED <<registry, costVars, hostVars>>

\* What the upstream may answer: a status and a body of at most MaxChunks
\* chunks, chunk i of every body differing from chunk j # i.
UpstreamStatuses == {200, 500}
ChunkOf(i) == [j \in 1..i |-> "x"]
UpstreamBodies == {[i \in 1..n |-> ChunkOf(i)] : n \in 0..MaxChunks}
UpstreamResponses ==
    [status : UpstreamStatuses, headers : {NoHeaders}, body : UpstreamBodies]

\* Fault: a failed h.client.Do is tried again.
doFailed_Retry(q) ==
    [q EXCEPT !.sent = Append(@, q.outReq)]

\* The request after h.client.Do failed: no retry, a 502.
doFailed(q) ==
    fail([q EXCEPT !.sent = Append(@, q.outReq), !.observed = q.cancelled], 502,
         "upstream request failed", "Forward")

\* Fault: every upstream answer is relayed as 200.
doAnswered_Status200(q, resp) ==
    [q EXCEPT !.sent = Append(@, q.outReq), !.resp = resp, !.upstream = resp,
              !.status = 200, !.statusWrites = @ + 1,
              !.pc = "StreamRead"]

\* h.client.Do(outReq) returned resp: the status line is relayed.
doAnswered(q, resp) ==
    [q EXCEPT !.sent = Append(@, q.outReq), !.resp = resp, !.upstream = resp,
              !.status = resp.status, !.statusWrites = @ + 1,
              !.pc = "StreamRead"]

\* What h.client.Do may return: no connection, or a response.
ConnectFailed == [status |-> 0, headers |-> NoHeaders, body |-> <<>>]
Outcomes == {ConnectFailed} \cup UpstreamResponses

\* h.logger.LogRequest, then h.client.Do: the one outbound call of the
\* request, ending as `o`.
Forward(r, o) ==
    LET q == [req[r] EXCEPT !.audit = Append(@, LogRequest(req[r].agentID,
                                                           req[r].requestedModel))]
    IN  /\ q.pc = "Forward"
        /\ req' = [req EXCEPT ![r] =
              IF o = ConnectFailed THEN doFailed(q) ELSE doAnswered(q, o)]
        /\ UNCHANGED <<registry, costVars, hostVars>>

\* Fault: the body is read without the TeeReader.
StreamRead_NoTee(r) ==
    LET q == req[r]
    IN  /\ q.pc = "StreamRead"
        /\ \/ /\ q.resp.body # <<>>
              /\ req' = [req EXCEPT ![r] =
                    [q EXCEPT !.pc = "StreamWrite",
                              !.buf = <<Head(q.resp.body)>>,
                              !.resp.body = Tail(@)]]
           \/ /\ q.resp.body = <<>>
              /\ req' = [req EXCEPT ![r] = [q EXCEPT !.pc = "ExtractUsage"]]
           \/ req' = [req EXCEPT ![r] = streamFailed(q)]
        /\ UNCHANGED <<registry, costVars, hostVars>>

\* Fault: a read error during streaming is answered with a 502.
StreamRead_ErrorSurfaced(r) ==
    LET q == req[r]
    IN  /\ q.pc = "StreamRead"
        /\ \/ /\ q.resp.body # <<>>
              /\ req' = [req EXCEPT ![r] =
                    [q EXCEPT !.pc = "StreamWrite",
                              !.buf = <<Head(q.resp.body)>>,
                              !.responseBuf = Append(@, Head(q.resp.body)),
                              !.resp.body = Tail(@)]]
           \/ /\ q.resp.body = <<>>
              /\ req' = [req EXCEPT ![r] = [q EXCEPT !.pc = "ExtractUsage"]]
           \/ req' = [req EXCEPT ![r] =
                    [fail(q, 502, "upstream stream failed", "StreamResponse")
                        EXCEPT !.streamErr = TRUE]]
        /\ UNCHANGED <<registry, costVars, hostVars>>

\* streamBody: body.Read through the TeeReader.  A chunk is captured in
\* responseBuf as it is read; EOF ends the copy; a read error ends the
\* request, logged only.
StreamRead(r) ==
    LET q == req[r]
    IN  /\ q.pc = "StreamRead"
        /\ \/ /\ q.resp.body # <<>>
              /\ req' = [req EXCEPT ![r] =
                    [q EXCEPT !.pc = "StreamWrite",
                              !.buf = <<Head(q.resp.body)>>,
                              !.responseBuf = Append(@, Head(q.resp.body)),
                              !.resp.body = Tail(@)]]
           \/ /\ q.resp.body = <<>>
              /\ req' = [req EXCEPT ![r] = [q EXCEPT !.pc = "ExtractUsage"]]
           \/ req' = [req EXCEPT ![r] = streamFailed(q)]
        /\ UNCHANGED <<registry, costVars, hostVars>>

\* Fault: the chunk is written but not flushed.
StreamWrite_NoFlush(r) ==
    LET q == req[r]
    IN  /\ q.pc = "StreamWrite"
        /\ \/ req' = [req EXCEPT ![r] =
                    [q EXCEPT !.pc = "StreamRead", !.buf = <<>>,
                              !.clientBody = @ \o q.buf]]
           \/ req' = [req EXCEPT ![r] = streamFailed(q)]
        /\ UNCHANGED <<registry, costVars, hostVars>>

\* streamBody: w.Write(buf[:n]) and, with a Flusher, the flush (without
\* one, the write of io.Copy); a failed write ends the request, logged only.
StreamWrite(r) ==
    LET q == req[r]
    IN  /\ q.pc = "StreamWrite"
        /\ \/ req' = [req EXCEPT ![r] =
                    [q EXCEPT !.pc = "StreamRead", !.buf = <<>>,
                              !.clientBody = @ \o q.buf,
                              !.flushed = IF q.in.flusher
                                          THEN q.clientBody \o q.buf ELSE @]]
           \/ req' = [req EXCEPT ![r] = streamFailed(q)]
        /\ UNCHANGED <<registry, costVars, hostVars>>

\* The usage ServeHTTP extracts from the captured body.
extractUsage(headers, captured) ==
    IF isSSE(headers) THEN ExtractUsageFromSSE(captured).usage
    ELSE ExtractUsage(captured).usage

\* Fault: the token counts are passed in the wrong order.
recordArgs_TokensSwapped(q, usage) ==
    LET l == Lookup(DefaultPricing, q.providerName, q.upstreamModel)
    IN  RecordArgs(q.agentID, q.providerName, q.upstreamModel,
                   usage.CompletionTokens, usage.PromptTokens,
                   IF l.ok
                   THEN Compute(l.rate, usage.PromptTokens, usage.CompletionTokens)
                   ELSE FZero)

\* Fault: a pricing miss is charged at a default rate.
recordArgs_MissCostsDefault(q, usage) ==
    LET l == Lookup(DefaultPricing, q.providerName, q.upstreamModel)
    IN  RecordArgs(q.agentID, q.providerName, q.upstreamModel,
                   usage.PromptTokens, usage.CompletionTokens,
                   Compute(IF l.ok THEN l.rate ELSE Rate(100, 100),
                           usage.PromptTokens, usage.CompletionTokens))

\* The arguments of the Record call ServeHTTP makes for the request q with
\* the usage `usage`: a pricing miss costs zero.
recordArgs(q, usage) ==
    LET l == Lookup(DefaultPricing, q.providerName, q.upstreamModel)
    IN  RecordArgs(q.agentID, q.providerName, q.upstreamModel,
                   usage.PromptTokens, usage.CompletionTokens,
                   IF l.ok
                   THEN Compute(l.rate, usage.PromptTokens, usage.CompletionTokens)
                   ELSE FZero)

\* Accumulator.Record, from Lock to Unlock.
recorded(bs, a) ==
    Record(bs, a.agentID, a.provider, a.model, a.inputTokens, a.outputTokens,
           a.costUSD)

\* Fault: the usage is recorded whatever its token counts.
Finish_AlwaysRecords(r) ==
    LET q == req[r]
        usage == extractUsage(q.resp.headers, Flatten(q.responseBuf))
        a == recordArgs(q, usage)
    IN  /\ q.pc = "ExtractUsage"
        /\ IF ~costTracking
           THEN /\ req' = [req EXCEPT ![r] = logResponse([q EXCEPT !.pc = "Done"])]
                /\ UNCHANGED buckets
           ELSE /\ mu = 0
                /\ buckets' = recorded(buckets, a)
                /\ req' = [req EXCEPT ![r] =
                      logResponse([q EXCEPT !.pc = "Done", !.usage = usage,
                                            !.records = Append(@, a)])]
        /\ UNCHANGED <<registry, costTracking, mu, caller, call, hostVars>>

\* The end of ServeHTTP after a complete stream: with cost tracking, the
\* usage is extracted from the captured body and, when a token count is
\* positive, recorded (the call waits for the accumulator's mutex); then
\* the response entry is logged.
Finish(r) ==
    LET q == req[r]
        usage == extractUsage(q.resp.headers, Flatten(q.responseBuf))
        a == recordArgs(q, usage)
    IN  /\ q.pc = "ExtractUsage"
        /\ IF ~costTracking
           THEN /\ req' = [req EXCEPT ![r] = logResponse([q EXCEPT !.pc = "Done"])]
                /\ UNCHANGED buckets
           ELSE IF usage.PromptTokens > 0 \/ usage.CompletionTokens > 0
           THEN /\ accumulatorFree
                /\ buckets' = recorded(buckets, a)
                /\ req' = [req EXCEPT ![r] =
                      logResponse([q EXCEPT !.pc = "Done", !.usage = usage,
                                            !.records = Append(@, a),
                                            !.locks = Unlock(Lock(@))])]
           ELSE /\ req' = [req EXCEPT ![r] =
                      logResponse([q EXCEPT !.pc = "Done", !.usage = usage])]
                /\ UNCHANGED buckets
        /\ UNCHANGED <<registry, costTracking, mu, caller, call, hostVars>>

(***************************************************************************)
(* Accumulator.Record called directly, and the functions of the cost       *)
(* package called on their own.                                            *)
(***************************************************************************)
\* A goroutine calls Record(args).
RecordCall(c, args) ==
    /\ caller[c].pc = "idle"
    /\ caller' = [caller EXCEPT ![c] = [pc |-> "Lock", args |-> args]]
    /\ UNCHANGED <<registry, req, costTracking, buckets, mu, call, hostVars>>

\* a.mu.Lock()
RecordLock(c) ==
    /\ caller[c].pc = "Lock"
    /\ mu = 0
    /\ mu' = c
    /\ caller' = [caller EXCEPT ![c].pc = "Update"]
    /\ UNCHANGED <<registry, req, costTracking, buckets, call, hostVars>>

\* The update of the bucket under the lock.
RecordUpdate(c) ==
    /\ caller[c].pc = "Update"
    /\ buckets' = recorded(buckets, caller[c].args)
    /\ caller' = [caller EXCEPT ![c].pc = "Unlock"]
    /\ UNCHANGED <<registry, req, costTracking, mu, call, hostVars>>

\* The deferred a.mu.Unlock()
RecordUnlock(c) ==
    /\ caller[c].pc = "Unlock"
    /\ mu' = 0
    /\ caller' = [caller EXCEPT ![c].pc = "Done"]
    /\ UNCHANGED <<registry, req, costTracking, buckets, call, hostVars>>

\* A dashboard page calls accumulator.ByAgent(agentID), under the read lock.
ByAgentCall(agentID) ==
    /\ call.fn = ""
    /\ mu = 0
    /\ \E out \in ByAgent(buckets, agentID) :
          call' = [fn |-> "ByAgent", agentID |-> agentID, bs |-> buckets,
                   out |-> out]
    /\ UNCHANGED <<registry, req, costTracking, buckets, mu, caller, hostVars>>

\* A dashboard page calls accumulator.All(), under the read lock.
AllCall ==
    /\ call.fn = ""
    /\ mu = 0
    /\ \E out \in All(buckets) :
          call' = [fn |-> "All", bs |-> buckets, out |-> out]
    /\ UNCHANGED <<registry, req, costTracking, buckets, mu, caller, hostVars>>

\* identity.ParseBearer on the header "<scheme> <id>:<secret>".
ParseBearerCall(scheme, id, secret) ==
    LET header == scheme \o <<" ">> \o id \o <<":">> \o secret
        b == ParseBearer(header)
    IN  /\ call.fn = ""
        /\ call' = [fn |-> "ParseBearer", id |-> id, secret |-> secret,
                    header |-> header, ok |-> b.ok, gotID |-> b.agentID,
                    gotSecret |-> b.secret]
        /\ UNCHANGED <<registry, req, costTracking, buckets, mu, caller, hostVars>>

\* validateSecret on a context whose metadata token is `token`.
validateSecretCall(token, agentID, storedSecret, presentedSecret) ==
    /\ call.fn = ""
    /\ call' = [fn |-> "validateSecret", token |-> token, agentID |-> agentID,
                storedSecret |-> storedSecret,
                presentedSecret |-> presentedSecret,
                accepted |-> validateSecret(token, agentID, presentedSecret)]
    /\ UNCHANGED <<registry, req, costTracking, buckets, mu, caller, hostVars>>

\* constantTimeEqual(a, b), step by step.  examined counts the bytes the
\* comparison has read; v is whether the OR of the XORs of the bytes read so
\* far is non-zero.
constantTimeEqualCall(a, b) ==
    /\ call.fn = ""
    /\ call' = [fn |-> "constantTimeEqual", a |-> a, b |-> b, pc |-> "len",
                examined |-> 0, v |-> FALSE, result |-> FALSE]
    /\ UNCHANGED <<registry, req, costTracking, buckets, mu, caller, hostVars>>

\* if len(a) != len(b) { return false }
constantTimeEqualLen ==
    /\ call.fn = "constantTimeEqual"
    /\ call.pc = "len"
    /\ call' = IF Len(call.a) # Len(call.b)
               THEN [call EXCEPT !.pc = "returned", !.result = FALSE]
               ELSE [call EXCEPT !.pc = "loop"]
    /\ UNCHANGED <<registry, req, costTracking, buckets, mu, caller, hostVars>>

\* Fault: the comparison returns at the first byte that differs.
ConstantTimeCompareByte_EarlyExit ==
    /\ call.fn = "constantTimeEqual"
    /\ call.pc = "loop"
    /\ call.examined < Len(call.a)
    /\ call' = IF call.a[call.examined + 1] # call.b[call.examined + 1]
               THEN [call EXCEPT !.examined = @ + 1, !.pc = "returned",
                                 !.result = FALSE]
               ELSE [call EXCEPT !.examined = @ + 1]
    /\ UNCHANGED <<registry, req, costTracking, buckets, mu, caller, hostVars>>

\* subtle.ConstantTimeCompare, one byte: v |= x[i] ^ y[i].
ConstantTimeCompareByte ==
    /\ call.fn = "constantTimeEqual"
    /\ call.pc = "loop"
    /\ call.examined < Len(call.a)
    /\ call' = [call EXCEPT !.examined = @ + 1,
                            !.v = @ \/ call.a[call.examined + 1] # call.b[call.examined + 1]]
    /\ UNCHANGED <<registry, req, costTracking, buckets, mu, caller, hostVars>>

\* subtle.ConstantTimeCompare(...) == 1, after the last byte.
ConstantTimeCompareReturn ==
    /\ call.fn = "constantTimeEqual"
    /\ call.pc = "loop"
    /\ call.examined = Len(call.a)
    /\ call' = [call EXCEPT !.pc = "returned", !.result = ~call.v]
    /\ UNCHANGED <<registry, req, costTracking, buckets, mu, caller, hostVars>>

\* pricing.Lookup(provider, model) on DefaultPricing.
LookupCall(provider, model) ==
    LET l == Lookup(DefaultPricing, provider, model)
    IN  /\ call.fn = ""
        /\ call' = [NoCall EXCEPT !.fn = "Lookup", !.provider = provider,
                                  !.model = model, !.rate = l.rate, !.ok = l.ok]
        /\ UNCHANGED <<registry, req, costTracking, buckets, mu, caller, hostVars>>

\* cost.ExtractUsageFromSSE(stream)
ExtractUsageFromSSECall(stream) ==
    /\ call.fn = ""
    /\ call' = [NoCall EXCEPT !.fn = "ExtractUsageFromSSE", !.stream = stream,
                              !.usage = ExtractUsageFromSSE(stream).usage,
                              !.ok = ~ExtractUsageFromSSE(stream).err]
    /\ UNCHANGED <<registry, req, costTracking, buckets, mu, caller, hostVars>>

(***************************************************************************)
(* The registry's operations, called by the dashboard.                     *)
(***************************************************************************)
Set(name, p) ==
    /\ registryFree
    /\ registry' = RegistrySet(registry, name, p)
    /\ UNCHANGED <<req, costVars, hostVars>>

Delete(name) ==
    /\ registryFree
    /\ normalizeName(name) \in DOMAIN registry
    /\ registry' = RegistryDelete(registry, name)
    /\ UNCHANGED <<req, costVars, hostVars>>

(***************************************************************************)
(* The registry from NewRegistry on, called by one client at a time.  call *)
(* is the latest call and its result; held is the Providers that call left *)
(* the client a pointer to.                                                *)
(***************************************************************************)
\* A Provider behind a pointer a caller holds.  alias names the registry
\* entry the pointer points into; it is Empty when the Provider is a struct
\* of the caller's own.
Own(p) == [alias |-> Empty, val |-> p]

\* Fault: Get returns the stored pointer.
GetReturned_Stored(providers, n) == [alias |-> n, val |-> providers[n]]

\* Registry.Get: cp := *p; return &cp
GetReturned(providers, n) == Own(providers[n])

\* Registry.All: cp := *p; out[name] = &cp
RegistryAllReturned(providers) ==
    {GetReturned(providers, n) : n \in DOMAIN providers}

\* run: reg.LoadFromFile().  The entries of the file are ranged over in any
\* order.
LoadFromFileStep ==
    /\ boot = "LoadFromFile"
    /\ IF authDir = Empty
       THEN UNCHANGED registry
       ELSE \E entries \in Orders(providersJSON) :
               registry' = LoadFromFile(registry, entries)
    /\ boot' = "LoadFromEnv"
    /\ call' = [fn |-> "LoadFromFile", loaded |-> registry']
    /\ UNCHANGED <<req, costTracking, buckets, mu, caller, providersJSON,
                   environ, held, ui, authDir, rmu, gor>>

\* run: reg.LoadFromEnv()
LoadFromEnvStep ==
    /\ boot = "LoadFromEnv"
    /\ registry' = LoadFromEnv(registry, environ)
    /\ boot' = "serving"
    /\ call' = [call EXCEPT !.fn = "LoadFromEnv"]
    /\ UNCHANGED <<req, costTracking, buckets, mu, caller, providersJSON,
                   environ, held, ui, authDir, rmu, gor>>

\* r.Set(name, &p)
RegistrySetCall(name, p) ==
    /\ boot = "serving"
    /\ registry' = RegistrySet(registry, name, p)
    /\ held' = {Own(p)}
    /\ call' = [fn |-> "Set", name |-> name, p |-> p, ok |-> TRUE,
                prov |-> NoProvider]
    /\ UNCHANGED <<req, costTracking, buckets, mu, caller, boot,
                   providersJSON, environ, ui, authDir, rmu, gor>>

\* r.Delete(name)
RegistryDeleteCall(name) ==
    /\ boot = "serving"
    /\ registry' = RegistryDelete(registry, name)
    /\ held' = {}
    /\ call' = [fn |-> "Delete", name |-> name, p |-> NoProvider, ok |-> TRUE,
                prov |-> NoProvider]
    /\ UNCHANGED <<req, costTracking, buckets, mu, caller, boot,
                   providersJSON, environ, ui, authDir, rmu, gor>>

\* p, err := r.Get(name)
RegistryGetCall(name) ==
    /\ boot = "serving"
    /\ held' = IF RegistryGet(registry, name).ok
               THEN {GetReturned(registry, normalizeName(name))}
               ELSE {}
    /\ call' = [fn |-> "Get", name |-> name, p |-> NoProvider,
                ok |-> RegistryGet(registry, name).ok,
                prov |-> RegistryGet(registry, name).prov]
    /\ UNCHANGED <<registry, req, costTracking, buckets, mu, caller, boot,
                   providersJSON, environ, ui, authDir, rmu, gor>>

\* all := r.All()
RegistryAllCall ==
    /\ boot = "serving"
    /\ held' = RegistryAllReturned(registry)
    /\ call' = [fn |-> "All", name |-> Empty, p |-> NoProvider, ok |-> TRUE,
                prov |-> NoProvider]
    /\ UNCHANGED <<registry, req, costTracking, buckets, mu, caller, boot,
                   providersJSON, environ, ui, authDir, rmu, gor>>

\* err := r.SaveToFile(), called on its own.  saved is the registry as the
\* call found it, before the file as it was.
SaveToFileCall ==
    /\ boot = "serving"
    /\ providersJSON' = IF authDir = Empty THEN providersJSON
                        ELSE SaveSnapshot(registry)
    /\ call' = [fn |-> "SaveToFile", err |-> (authDir = Empty),
                saved |-> registry, before |-> providersJSON]
    /\ held' = {}
    /\ UNCHANGED <<registry, req, costTracking, buckets, mu, caller, boot,
                   environ, ui, authDir, rmu, gor>>

\* r2 := NewRegistry(authDir); r2.LoadFromFile(), after a SaveToFile that
\* succeeded.  loaded is r2's providers.
ReloadCall ==
    /\ call.fn = "SaveToFile"
    /\ ~call.err
    /\ \E entries \in Orders(providersJSON) :
          call' = [fn |-> "Reload", err |-> FALSE, saved |-> call.saved,
                   before |-> call.before,
                   loaded |-> LoadFromFile([n \in {} |-> NoProvider], entries)]
    /\ UNCHANGED <<registry, req, costTracking, buckets, mu, caller, boot,
                   providersJSON, environ, held, ui, authDir, rmu, gor>>

\* The caller assigns v to a field of a Provider it holds a pointer to.
CallerWrite(field, v) ==
    /\ boot = "serving"
    /\ \E cell \in held :
          /\ cell.val[field] # v
          /\ held' = (held \ {cell}) \cup
                     {[cell EXCEPT !.val = [cell.val EXCEPT ![field] = v]]}
          /\ IF cell.alias = Empty
             THEN UNCHANGED registry
             ELSE registry' = [registry EXCEPT ![cell.alias][field] = v]
          /\ call' = [fn |-> "write", name |-> cell.val.Name, p |-> NoProvider,
                      ok |-> TRUE, prov |-> NoProvider]
    /\ UNCHANGED <<req, costTracking, buckets, mu, caller, boot,
                   providersJSON, environ, ui, authDir, rmu, gor>>

(***************************************************************************)
(* The dashboard's POST /providers, one goroutine per request.             *)
(***************************************************************************)
sDelete == <<"d", "e", "l", "e", "t", "e">>

\* ServeHTTP: a POST to /providers arrives with its form.
ProvidersPost(u, form) ==
    /\ boot = "serving"
    /\ ui[u].pc = "idle"
    /\ ui' = [ui EXCEPT ![u] = [IdleUI EXCEPT !.pc = "update", !.form = form]]
    /\ UNCHANGED <<registry, req, costVars, boot, providersJSON, environ, held,
                   authDir, rmu, gor>>

\* handleProviderUpdate up to the call of SaveToFile: 400 for a blank name,
\* else registry.Delete or registry.Set.
handleProviderUpdate(u) ==
    /\ ui[u].pc = "update"
    /\ LET form == ui[u].form
           name == ToLower(TrimSpace(form.name))
           action == ToLower(TrimSpace(form.action))
           auth == ToLower(TrimSpace(form.auth))
       IN  IF name = Empty
           THEN /\ ui' = [ui EXCEPT ![u] = [IdleUI EXCEPT !.pc = "done",
                                                          !.status = 400]]
                /\ UNCHANGED registry
           ELSE /\ ui' = [ui EXCEPT ![u] = [IdleUI EXCEPT !.pc = "save"]]
                /\ registry' =
                      IF action = sDelete
                      THEN RegistryDelete(registry, name)
                      ELSE RegistrySet(registry, name,
                              Provider(name, TrimSpace(form.base_url),
                                       TrimSpace(form.api_key),
                                       IF auth = Empty THEN sAuthBearer ELSE auth,
                                       Empty))
    /\ UNCHANGED <<req, costVars, boot, providersJSON, environ, held,
                   authDir, rmu, gor>>

\* SaveToFile: the copy of the providers taken under the read lock.
SaveToFileSnapshot(u) ==
    /\ ui[u].pc = "save"
    /\ ui' = [ui EXCEPT ![u].pc = "write",
                        ![u].snapshot = SaveSnapshot(registry)]
    /\ UNCHANGED <<registry, req, costVars, boot, providersJSON, environ, held,
                   authDir, rmu, gor>>

\* SaveToFile: os.WriteFile of the marshalled copy, after the lock is
\* released; then the redirect.
SaveToFileWrite(u) ==
    /\ ui[u].pc = "write"
    /\ providersJSON' = ui[u].snapshot
    /\ ui' = [ui EXCEPT ![u] = [IdleUI EXCEPT !.pc = "done", !.status = 303]]
    /\ UNCHANGED <<registry, req, costVars, boot, environ, held, authDir, rmu, gor>>

\* The response is out; the client may post again.
ProvidersDone(u) ==
    /\ ui[u].pc = "done"
    /\ ui' = [ui EXCEPT ![u] = IdleUI]
    /\ UNCHANGED <<registry, req, costVars, boot, providersJSON, environ, held,
                   authDir, rmu, gor>>

(***************************************************************************)
(* Inbound requests.                                                       *)
(***************************************************************************)
sPath == <<"/", "v", "1", "/", "c">>

\* Authorization header values: absent, another scheme, no separator, no
\* agent id, valid ones (one with blanks around, one whose secret holds the
\* separator), a wrong secret, an agent without context, an agent whose
\* stored token names another agent, an agent whose stored token is empty,
\* an agent whose stored token is the bare secret "s:t".
AuthValues ==
    { Empty,
      sBasic \o <<" ", "a", ":", "s">>,
      sBearer \o <<" ", "a", "s">>,
      sBearer \o <<" ", ":", "s">>,
      sBearer \o <<" ", "a", ":", "s">>,
      <<" ">> \o sBearer \o <<" ", " ", "a", ":", "s", " ">>,
      <<"b", "e", "a", "r", "e", "r", " ", "b", ":", "s", ":", "t">>,
      sBearer \o <<" ", "a", ":", "x">>,
      sBearer \o <<" ", "z", ":", "s">>,
      sBearer \o <<" ", "c", ":", "s">>,
      sBearer \o <<" ", "d", ":", "s">>,
      sBearer \o <<" ", "e", ":", "s", ":", "t">> }

\* Headers the client sends beside Authorization.
ExtraHeaders ==
    { NoHeaders,
      [k \in { <<"C", "o", "n", "n", "e", "c", "t", "i", "o", "n">>,
               <<"P", "r", "o", "x", "y", "-", "A", "u", "t", "h", "o", "r", "i", "z", "a", "t", "i", "o", "n">>,
               sXApiKey, sContentType, <<"X", "-", "T">> } |->
          IF k = sXApiKey THEN << <<"c", "k">> >>
          ELSE IF k = <<"X", "-", "T">> THEN << <<"1">>, <<"2">> >>
          ELSE << <<"v">> >>] }

InHeaders(auth, extra) ==
    IF auth = Empty THEN extra
    ELSE [k \in DOMAIN extra \cup {sAuthorization} |->
             IF k = sAuthorization THEN <<auth>> ELSE extra[k]]

\* Client-supplied model strings.
sG == <<"g">>
ModelValues ==
    { sOpenai \o sSlash \o sG,
      <<"O", "p", "e", "n", "A", "I">> \o sSlash \o sG,
      <<" ">> \o sOpenai \o sSlash \o sG \o <<" ">>,
      sOpenai \o sSlash \o <<"a", "/", "c">>,
      sOpenai \o <<" ">> \o sSlash \o sG,
      sG,
      sSlash \o sG,
      sOpenai \o sSlash,
      <<"z", "z">> \o sSlash \o sG,
      sAnthropic \o sSlash \o sG,
      sOllama \o sSlash \o sG,
      sOpenrouter \o sSlash \o sG,
      sP5 \o sSlash \o sG,
      sP6 \o sSlash \o sG,
      sP7 \o sSlash \o sG,
      sP8 \o sSlash \o sG,
      sP9 \o sSlash \o sG }

ObjectBody(fields) == [kind |-> "object", fields |-> fields]

\* Request bodies: unreadable, not JSON, JSON that is no object, null,
\* objects without a usable model, one object per model string, and objects
\* with further fields (a small and a 2^53 + 1 seed, a string).
Bodies ==
    { [kind |-> k, fields |-> NoFields] : k \in {"readerr", "text", "array", "null"} }
    \cup { ObjectBody([k \in {"user"} |-> JStr(<<"u">>)]),
           ObjectBody([k \in {"model"} |-> JNum(0, 7)]),
           ObjectBody([k \in {"model"} |-> JStr(<<" ", " ">>)]) }
    \cup { ObjectBody([k \in {"model"} |-> JStr(m)]) : m \in ModelValues }
    \cup { ObjectBody([k \in {"model", "seed", "user"} |->
                          CASE k = "model" -> JStr(sOpenai \o sSlash \o sG)
                            [] k = "seed" -> n
                            [] OTHER -> JStr(<<"u">>)]) :
             n \in {JNum(0, 7), JNum(2^23, 1)} }

Inputs ==
    { [method |-> m, headers |-> InHeaders(a, e), body |-> b,
       path |-> sPath, query |-> Empty, flusher |-> TRUE] :
        m \in {"POST", "GET"}, a \in AuthValues, e \in ExtraHeaders, b \in Bodies }

\* The requests of the concurrent specification: a valid one, one with a
\* wrong secret, one for a provider the registry lacks after a Delete.
FewInputs ==
    { [method |-> "POST", headers |-> InHeaders(a, NoHeaders),
       body |-> ObjectBody([k \in {"model"} |-> JStr(m)]),
       path |-> sPath, query |-> Empty, flusher |-> TRUE] :
        a \in { sBearer \o <<" ", "a", ":", "s">>, sBearer \o <<" ", "a", ":", "x">> },
        m \in { sOpenai \o sSlash \o sG } }

\* The upstream of the concurrent specification: down, or one answer.
FewOutcomes ==
    {ConnectFailed, [status |-> 200, headers |-> NoHeaders, body |-> <<ChunkOf(1)>>]}

\* What the dashboard may store under "openai".
SetInputs ==
    { << <<" ", "O", "p", "e", "n", "A", "I">>,
         Provider(Empty, sURLBackend, sKey2, sAuthNone, Empty) >>,
      << sOpenai, Provider(sOpenai, sURLBackend, sKey, sAuthBearer, Empty) >> }

DeleteInputs == { sOpenai, <<"O", "p", "e", "n", "a", "i", " ">> }

(***************************************************************************)
(* Specifications.                                                         *)
(***************************************************************************)
(***************************************************************************)
(* Calls of the registry from goroutines of their own, by the steps between*)
(* which another goroutine can run.                                        *)
(***************************************************************************)
raceFixed == <<req, costVars, boot, providersJSON, environ, held, ui, authDir>>

\* The fields of Provider in the order of the struct.
ProviderFields == <<"Name", "BaseURL", "APIKey", "Auth", "APIFormat">>

\* What the map holds for the normalized name n.
Held(providers, n) == IF n \in DOMAIN providers THEN providers[n] ELSE NoProvider

\* The readers in progress after the map has become `after`: a Get whose
\* struct the map has replaced or dropped (names `replaced`) keeps the old
\* struct; every reader has one more value to have seen.
Readers(gs, replaced, before, after) ==
    [g \in DOMAIN gs |->
        IF g = "Get" /\ gs[g].pc = "copy"
        THEN [gs[g] EXCEPT
                !.p = IF @.live /\ gs[g].name \in replaced
                      THEN [live |-> FALSE, val |-> Held(before, gs[g].name)]
                      ELSE @,
                !.seen = @ \cup {Held(after, gs[g].name)}]
        ELSE IF g = "All" /\ gs[g].pc = "copy"
        THEN [gs[g] EXCEPT
                !.seenAll = [n \in DOMAIN @ |-> @[n] \cup {Held(after, n)}]]
        ELSE gs[g]]

\* Get up to RUnlock: the pointer is read from the map under the read lock.
GetLookup(name) ==
    LET n == normalizeName(name)
    IN  /\ boot = "serving"
        /\ gor["Get"].pc = "idle"
        /\ rmu.writer = ""
        /\ gor' = [gor EXCEPT !["Get"] =
              IF n \in DOMAIN registry
              THEN [IdleGor EXCEPT !.pc = "copy", !.name = n,
                                   !.p = [live |-> TRUE, val |-> NoProvider],
                                   !.todo = ProviderFields,
                                   !.seen = {registry[n]}]
              ELSE [IdleGor EXCEPT !.pc = "done", !.name = n,
                                   !.seen = {NoProvider}]]
        /\ UNCHANGED <<registry, rmu, raceFixed>>

\* Get after RUnlock, "cp := *p": the next field of the struct is read, from
\* the struct the map holds when the pointer is live.
GetCopy ==
    LET g == gor["Get"]
        f == Head(g.todo)
        from == IF g.p.live THEN registry[g.name] ELSE g.p.val
    IN  /\ g.pc = "copy"
        /\ gor' = [gor EXCEPT !["Get"] =
              [g EXCEPT !.got = [@ EXCEPT ![f] = from[f]],
                        !.todo = Tail(@),
                        !.pc = IF Len(g.todo) = 1 THEN "done" ELSE "copy",
                        !.ok = Len(g.todo) = 1]]
        /\ UNCHANGED <<registry, rmu, raceFixed>>

\* All: RLock, kept until the call returns.
AllLock ==
    /\ boot = "serving"
    /\ gor["All"].pc = "idle"
    /\ rmu.writer = ""
    /\ rmu' = [rmu EXCEPT !.readers = @ \cup {"All"}]
    /\ gor' = [gor EXCEPT !["All"] =
          [IdleGor EXCEPT !.pc = "copy", !.names = DOMAIN registry,
                          !.seenAll = [n \in DOMAIN registry |-> {registry[n]}]]]
    /\ UNCHANGED <<registry, raceFixed>>

\* All: one turn of the range over the map, "cp := *v; out[k] = &cp".
AllCopy ==
    LET g == gor["All"]
    IN  /\ g.pc = "copy"
        /\ \E n \in g.names :
              gor' = [gor EXCEPT !["All"] =
                 [g EXCEPT !.names = @ \ {n},
                           !.all = [x \in DOMAIN @ \cup {n} |->
                                       IF x = n THEN registry[n] ELSE @[x]]]]
        /\ UNCHANGED <<registry, rmu, raceFixed>>

\* All: the deferred RUnlock.
AllReturn ==
    /\ gor["All"].pc = "copy"
    /\ gor["All"].names = {}
    /\ rmu' = [rmu EXCEPT !.readers = @ \ {"All"}]
    /\ gor' = [gor EXCEPT !["All"].pc = "done", !["All"].ok = TRUE]
    /\ UNCHANGED <<registry, raceFixed>>

\* LoadFromEnv: Lock, kept until the call returns.
LoadFromEnvLock ==
    /\ boot = "serving"
    /\ gor["LoadFromEnv"].pc = "idle"
    /\ rmu = NoLock
    /\ rmu' = [rmu EXCEPT !.writer = "LoadFromEnv"]
    /\ gor' = [gor EXCEPT !["LoadFromEnv"] =
          [IdleGor EXCEPT !.pc = "urls", !.keys = DOMAIN envBaseURLMap]]
    /\ UNCHANGED <<registry, raceFixed>>

\* LoadFromEnv: one turn of the first loop.  A provider the map holds is
\* written in place, "p.BaseURL = v".
LoadFromEnvURL ==
    LET g == gor["LoadFromEnv"]
    IN  /\ g.pc = "urls"
        /\ \E k \in g.keys :
              LET after == envBaseURL(registry, environ, k)
                  rest == g.keys \ {k}
              IN  /\ registry' = after
                  /\ gor' = [Readers(gor, {}, registry, after) EXCEPT
                        !["LoadFromEnv"] =
                           IF rest = {}
                           THEN [g EXCEPT !.pc = "keys", !.keys = DOMAIN envKeyMap]
                           ELSE [g EXCEPT !.keys = rest]]
        /\ UNCHANGED <<rmu, raceFixed>>

\* LoadFromEnv: one turn of the second loop, "p.APIKey = v" in place.
LoadFromEnvKey ==
    LET g == gor["LoadFromEnv"]
    IN  /\ g.pc = "keys"
        /\ \E k \in g.keys :
              LET after == envAPIKey(registry, environ, k)
              IN  /\ registry' = after
                  /\ gor' = [Readers(gor, {}, registry, after) EXCEPT
                        !["LoadFromEnv"] = [g EXCEPT !.keys = @ \ {k}]]
        /\ UNCHANGED <<rmu, raceFixed>>

\* LoadFromEnv: the deferred Unlock.
LoadFromEnvReturn ==
    /\ gor["LoadFromEnv"].pc = "keys"
    /\ gor["LoadFromEnv"].keys = {}
    /\ rmu' = NoLock
    /\ gor' = [gor EXCEPT !["LoadFromEnv"].pc = "done"]
    /\ UNCHANGED <<registry, raceFixed>>

\* Set, from Lock to Unlock: the map gets a struct of its own.
SetLocked(name, p) ==
    LET after == RegistrySet(registry, name, p)
    IN  /\ boot = "serving"
        /\ gor["Set"].pc = "idle"
        /\ rmu = NoLock
        /\ registry' = after
        /\ gor' = [Readers(gor, {normalizeName(name)}, registry, after) EXCEPT
              !["Set"] = [IdleGor EXCEPT !.pc = "done"]]
        /\ UNCHANGED <<rmu, raceFixed>>

\* Delete, from Lock to Unlock.
DeleteLocked(name) ==
    LET after == RegistryDelete(registry, name)
    IN  /\ boot = "serving"
        /\ gor["Delete"].pc = "idle"
        /\ rmu = NoLock
        /\ registry' = after
        /\ gor' = [Readers(gor, {normalizeName(name)}, registry, after) EXCEPT
              !["Delete"] = [IdleGor EXCEPT !.pc = "done"]]
        /\ UNCHANGED <<rmu, raceFixed>>

\* LoadFromFile, from Lock to Unlock: every entry of the file gets a struct
\* of its own.
LoadFromFileLocked ==
    /\ boot = "serving"
    /\ gor["LoadFromFile"].pc = "idle"
    /\ rmu = NoLock
    /\ \E entries \in Orders(providersJSON) :
          LET after == LoadFromFile(registry, entries)
              replaced == {normalizeName(entries[i].Name) : i \in DOMAIN entries}
          IN  /\ registry' = after
              /\ gor' = [Readers(gor, replaced, registry, after) EXCEPT
                    !["LoadFromFile"] = [IdleGor EXCEPT !.pc = "done"]]
    /\ UNCHANGED <<rmu, raceFixed>>

\* The client goes away, or the context of the inbound request is
\* cancelled otherwise, while the handler is in client.Do or in
\* streamBody.  The outbound request carries that context: the call in
\* progress returns an error once it notices, unless it completes first.
Cancel(r) ==
    /\ req[r].pc \in {"Forward", "StreamRead", "StreamWrite"}
    /\ ~req[r].cancelled
    /\ req' = [req EXCEPT ![r].cancelled = TRUE]
    /\ UNCHANGED <<registry, costVars, hostVars>>

\* One step of one request's ServeHTTP call.
Step(r) ==
    \/ Authenticate(r)
    \/ ResolveIdentity(r)
    \/ ValidateSecret(r)
    \/ ParseBody(r)
    \/ SplitModel(r)
    \/ ResolveProvider(r)
    \/ BuildUpstreamRequest(r)
    \/ InjectCredential(r)
    \/ StreamRead(r)
    \/ StreamWrite(r)
    \/ Finish(r)

\* NReq concurrent requests and the dashboard.
Next ==
    \/ \E r \in Reqs, in \in FewInputs : Arrive(r, in)
    \/ \E r \in Reqs : Step(r)
    \/ \E r \in Reqs, o \in FewOutcomes : Forward(r, o)
    \/ \E s \in SetInputs : Set(s[1], s[2])
    \/ \E n \in DeleteInputs : Delete(n)

Spec == Init /\ [][Next]_vars

\* One request, drawn from all of Inputs, and the dashboard.
NextPipeline ==
    \/ \E in \in Inputs : Arrive(1, in)
    \/ Step(1)
    \/ \E o \in Outcomes : Forward(1, o)
    \/ \E s \in SetInputs : Set(s[1], s[2])
    \/ \E n \in DeleteInputs : Delete(n)

SpecPipeline == Init /\ [][NextPipeline]_vars

\* One POST request over every credential and body, against the startup
\* registry or an empty one, with no dashboard edit.
StageInputs == {in \in Inputs : in.method = "POST" /\ in.headers = InHeaders(
                    HeaderGet(in.headers, sAuthorization), NoHeaders)}

InitStages ==
    /\ registry \in { [n \in {} |-> NoProvider],
                      LoadFromFile([n \in {} |-> NoProvider], StartupFile) }
    /\ req = [r \in Reqs |-> IdleReq]
    /\ costTracking = TRUE
    /\ InitCost
    /\ InitHost

NextStages ==
    \/ \E in \in StageInputs : Arrive(1, in)
    \/ Step(1)
    \/ \E o \in Outcomes : Forward(1, o)

SpecStages == InitStages /\ [][NextStages]_vars

\* Every model string of at most MaxLen characters over a letter, a capital,
\* the separator and a blank, sent by a client with a valid credential.
SplitAlphabet == {"a", "B", "/", " "}
SplitStrings == UNION {[1..n -> SplitAlphabet] : n \in 0..MaxLen}
SplitInputs ==
    { [method |-> "POST",
       headers |-> InHeaders(sBearer \o <<" ", "a", ":", "s">>, NoHeaders),
       body |-> ObjectBody([k \in {"model"} |-> JStr(m)]),
       path |-> sPath, query |-> Empty, flusher |-> TRUE] : m \in SplitStrings }

\* One request up to provider resolution, over every model string.
NextSplit ==
    \/ \E in \in SplitInputs : Arrive(1, in)
    \/ Authenticate(1)
    \/ ResolveIdentity(1)
    \/ ValidateSecret(1)
    \/ ParseBody(1)
    \/ SplitModel(1)
    \/ ResolveProvider(1)

SpecSplit == Init /\ [][NextSplit]_vars

(***************************************************************************)
(* The response path: one request with a valid credential, over upstream   *)
(* answers with and without usage, with and without cost tracking.         *)
(***************************************************************************)
\* Model strings by what pricing.Lookup finds for them: the exact key, a
\* key as a prefix, the longer of two keys that are prefixes, no key, a
\* provider without prices, a provider key with a trailing blank.
ResponseModels ==
    { sOpenai \o sSlash \o mGpt4o,
      <<"O", "p", "e", "n", "A", "I">> \o sSlash \o mGpt4o \o <<"-", "2", "0", "2", "4">>,
      sOpenai \o sSlash \o mGpt4oMini \o <<"-", "x">>,
      sOpenai \o sSlash \o <<"z", "z">>,
      sOllama \o sSlash \o sG,
      sOpenai \o <<" ">> \o sSlash \o mGpt4o }

ResponseInputs ==
    { [method |-> "POST",
       headers |-> InHeaders(sBearer \o <<" ", "a", ":", "s">>, NoHeaders),
       body |-> ObjectBody([k \in {"model"} |-> JStr(m)]),
       path |-> sPath, query |-> Empty, flusher |-> TRUE] : m \in ResponseModels }
    \cup
    { [method |-> "POST",
       headers |-> InHeaders(sBearer \o <<" ", "a", ":", "s">>, NoHeaders),
       body |-> ObjectBody([k \in {"model"} |-> JStr(sOpenai \o sSlash \o mGpt4o)]),
       path |-> sPath, query |-> Empty, flusher |-> FALSE] }

\* One event of an event stream: "data: <doc>\n\n".
DataLine(doc) == sDataPrefix \o <<doc, "\n", "\n">>

\* Upstream bodies with usage: JSON documents and event streams, in chunks.
UsageBodies ==
    { << <<"{usage:{3,1}}">> >>,
      << <<" ", "{usage:{5,2}}", "\n">> >>,
      << <<"{usage:{0,0}}">> >>,
      << <<"{}">> >>,
      << <<"{usage:x}">> >>,
      << <<"{usage:{c:4}}">> >>,
      << <<"{usage:{3,1}}">>, <<"{usage:{5,2}}">> >>,
      << DataLine("{}"), DataLine("{usage:{3,1}}") \o sDataPrefix \o sDone \o <<"\n", "\n">> >>,
      << DataLine("{usage:{3,1}}"), DataLine("{usage:{5,2}}") >>,
      << DataLine("{usage:{5,2}}"), DataLine("{usage:x}") >>,
      << sDataPrefix, <<"{usage:{5,2}}", "\n">> >>,
      << DataLine("{usage:{0,0}}") >> }

sCTJSON == <<"a", "p", "p", "l", "i", "c", "a", "t", "i", "o", "n", "/", "j", "s", "o", "n">>
sCTEventStream == <<"t", "e", "x", "t", "/", "e", "v", "e", "n", "t", "-", "s", "t", "r", "e", "a", "m", ";", " ", "c", "h", "a", "r", "s", "e", "t", "=", "u", "t", "f", "-", "8">>

ResponseHeaders ==
    { [k \in {sContentType} |-> <<v>>] : v \in {sCTJSON, sCTEventStream} }

ResponseOutcomes ==
    Outcomes
    \cup [status : UpstreamStatuses, headers : ResponseHeaders, body : UsageBodies]

\* The handler as NewHandler builds it: with or without WithCostTracking.
InitResponse ==
    /\ registry = LoadFromFile([n \in {} |-> NoProvider], StartupFile)
    /\ req = [r \in Reqs |-> IdleReq]
    /\ costTracking \in BOOLEAN
    /\ InitCost
    /\ InitHost

NextResponse ==
    \/ \E in \in ResponseInputs : Arrive(1, in)
    \/ Step(1)
    \/ \E o \in ResponseOutcomes : Forward(1, o)

SpecResponse == InitResponse /\ [][NextResponse]_vars

\* One request with a valid credential, cancelled at any point of its
\* outbound call or of the streaming.
NextCancel ==
    \/ \E in \in ResponseInputs : Arrive(1, in)
    \/ Step(1)
    \/ \E o \in Outcomes : Forward(1, o)
    \/ Cancel(1)

SpecCancel == Init /\ [][NextCancel]_vars

(***************************************************************************)
(* The accumulator over the requests the server handles one after another. *)
(***************************************************************************)
\* The server hands the next request to the handler once the last one is
\* answered.
NextRequest(r) ==
    /\ req[r].pc = "Done"
    /\ req' = [req EXCEPT ![r] = IdleReq]
    /\ UNCHANGED <<registry, costVars, hostVars>>

\* The requests recorded so far, over all buckets.
RECURSIVE TotalRequests(_)
TotalRequests(bs) ==
    IF DOMAIN bs = {} THEN 0
    ELSE LET k == CHOOSE x \in DOMAIN bs : TRUE
         IN  bs[k].RequestCount + TotalRequests([x \in DOMAIN bs \ {k} |-> bs[x]])

\* Two agents with valid credentials; a priced model, a second one and a
\* provider without prices.
LedgerCredentials ==
    { sBearer \o <<" ", "a", ":", "s">>, sBearer \o <<" ", "b", ":", "s", ":", "t">> }

LedgerModels ==
    { sOpenai \o sSlash \o mGpt4o, sOpenai \o sSlash \o mO3, sOllama \o sSlash \o sG }

LedgerInputs ==
    { [method |-> "POST",
       headers |-> InHeaders(c, NoHeaders),
       body |-> ObjectBody([k \in {"model"} |-> JStr(m)]),
       path |-> sPath, query |-> Empty, flusher |-> TRUE] :
         c \in LedgerCredentials, m \in LedgerModels }

\* Upstream answers with a usage; in one the completion count is negative.
LedgerOutcomes ==
    { [status |-> 200, headers |-> [k \in {sContentType} |-> <<sCTJSON>>],
       body |-> << <<d>> >>] : d \in {"{usage:{3,1}}", "{usage:{5,-3}}"} }

NextLedger ==
    \/ \E in \in LedgerInputs :
          TotalRequests(buckets) < MaxRecords /\ Arrive(1, in)
    \/ Step(1)
    \/ \E o \in LedgerOutcomes : Forward(1, o)
    \/ NextRequest(1)

SpecLedger == Init /\ [][NextLedger]_vars

\* The same requests, all answered with the usage (3,1), and one query of
\* the dashboard; a request in flight at the query is still recorded.
QueryOutcomes ==
    { [status |-> 200, headers |-> [k \in {sContentType} |-> <<sCTJSON>>],
       body |-> << <<"{usage:{3,1}}">> >>] }

NextQueries ==
    \/ \E in \in LedgerInputs :
          /\ call.fn = ""
          /\ TotalRequests(buckets) < MaxRecords
          /\ Arrive(1, in)
    \/ Step(1)
    \/ \E o \in QueryOutcomes : Forward(1, o)
    \/ NextRequest(1)
    \/ \E a \in {cA, cB, cC} : ByAgentCall(a)
    \/ AllCall

SpecQueries == Init /\ [][NextQueries]_vars

(***************************************************************************)
(* Accumulator.Record under concurrent callers.                            *)
(***************************************************************************)
\* Two buckets; a call of a small cost and one of 2^53 cost units.
RecordInputs ==
    { RecordArgs(cA, sOpenai, m, t[1], t[2], t[3]) :
        m \in {mGpt4o, mO3},
        t \in { <<3, 1, F64(0, 1)>>, <<5, 2, F64(2^23, 0)>> } }

NextRecord ==
    \/ \E c \in Callers, a \in RecordInputs : RecordCall(c, a)
    \/ \E c \in Callers : RecordLock(c)
    \/ \E c \in Callers : RecordUpdate(c)
    \/ \E c \in Callers : RecordUnlock(c)

SpecRecord == Init /\ [][NextRecord]_vars

(***************************************************************************)
(* ParseBearer over its inputs.                                            *)
(***************************************************************************)
\* The non-empty strings of at most n characters of the set chars.
StringsUpTo(chars, n) == UNION {[1..k -> chars] : k \in 1..n}

\* Agent ids: a letter, a blank, and pairs of them.
BearerIDs == StringsUpTo({"a", " "}, 2)

\* Secrets over a letter, the separator and a blank.
BearerSecrets == StringsUpTo({"s", ":", " "}, MaxSecret)

BearerSchemes == { sBearer, <<"b", "e", "a", "r", "e", "r">>, <<"B", "E", "A", "R", "E", "R">> }

NextBearer ==
    \E scheme \in BearerSchemes, id \in BearerIDs, secret \in BearerSecrets :
        ParseBearerCall(scheme, id, secret)

SpecBearer == Init /\ [][NextBearer]_vars

(***************************************************************************)
(* validateSecret over its inputs.                                         *)
(***************************************************************************)
\* The secrets ParseBearer returns: non-empty, no white space at the end.
ParsedSecrets == {x \in BearerSecrets : ~IsSpace(x[Len(x)])}

\* The "bearer " markers a stored reference may begin with.
BearerMarkers ==
    { Empty, sBearerSp, sBearer \o <<" ">>, <<"B", "E", "A", "R", "E", "R", " ">> }

\* The references metadata.json may hold for the secret x of the agent a:
\* bare or with the agent id, with or without a marker.
StoredForms(a, x) ==
    {m \o x : m \in BearerMarkers} \cup {m \o a \o <<":">> \o x : m \in BearerMarkers}

NextSecret ==
    \E x \in ParsedSecrets, y \in ParsedSecrets :
        \E t \in StoredForms(cA, x) : validateSecretCall(t, cA, x, y)

SpecSecret == Init /\ [][NextSecret]_vars

(***************************************************************************)
(* constantTimeEqual over its inputs.                                      *)
(***************************************************************************)
\* Stored and presented secrets: the empty one and all over two letters.
ComparedSecrets == {Empty} \cup StringsUpTo({"s", "t"}, MaxSecret)

NextCompare ==
    \/ \E a \in ComparedSecrets, b \in ComparedSecrets : constantTimeEqualCall(a, b)
    \/ constantTimeEqualLen
    \/ ConstantTimeCompareByte
    \/ ConstantTimeCompareReturn

SpecCompare == Init /\ [][NextCompare]_vars

(***************************************************************************)
(* The registry from NewRegistry on: the startup loads, then any calls of  *)
(* Set, Delete and Get.                                                    *)
(***************************************************************************)
sOpenAIPadded == <<" ", "O", "p", "e", "n", "A", "I", " ">>
sOPENAI == <<"O", "P", "E", "N", "A", "I">>
sAnthropicCap == <<"A", "n", "t", "h", "r", "o", "p", "i", "c">>
sOLLAMA == <<"O", "L", "L", "A", "M", "A">>
sBlank == <<" ">>
sZZ == <<"z", "z">>
sKey2Padded == <<" ", "k", "2", " ">>

\* os.Getenv with the variable k set to v.
EnvWith(env, k, v) == [env EXCEPT ![k] = v]

\* providers.json: absent or empty; one entry; two entries whose names are
\* equal once normalized.
RegistryFiles ==
    { {},
      {Provider(sOpenai, Empty, sKey, Empty, Empty)},
      {Provider(sOpenAIPadded, sURLBackend, sKey, Empty, Empty),
       Provider(sOpenai, Empty, sKey2, sAuthNone, Empty),
       Provider(sBlank, Empty, sKey, Empty, Empty)} }

RegistryEnvs == {NoEnv, EnvWith(NoEnv, "ANTHROPIC_API_KEY", sKey2)}

SetNames == {sOpenAIPadded, sAnthropicCap, sOLLAMA, sP5, sBlank}
SetProviders ==
    { NoProvider,
      Provider(sZZ, sURLBackend, sKey2, sAuthNone, sFmtAnthropic),
      Provider(Empty, Empty, sKey, sBlank, Empty) }
DeleteNames == {sOPENAI, sP5}
GetNames == {sOpenAIPadded, sOPENAI, sP5, sZZ}

InitRegistry ==
    /\ registry = [n \in {} |-> NoProvider]
    /\ req = [r \in Reqs |-> IdleReq]
    /\ costTracking = TRUE
    /\ InitCost
    /\ boot = "LoadFromFile"
    /\ providersJSON \in RegistryFiles
    /\ environ \in RegistryEnvs
    /\ held = {}
    /\ ui = [u \in UIReqs |-> IdleUI]
    /\ InitLocks

NextRegistry ==
    \/ LoadFromFileStep
    \/ LoadFromEnvStep
    \/ \E name \in SetNames, p \in SetProviders : RegistrySetCall(name, p)
    \/ \E name \in DeleteNames : RegistryDeleteCall(name)
    \/ \E name \in GetNames : RegistryGetCall(name)

SpecRegistry == InitRegistry /\ [][NextRegistry]_vars

(***************************************************************************)
(* The startup loads over files and environments.                          *)
(***************************************************************************)
\* providers.json: absent or empty; as the dashboard saved it; with empty
\* fields; with a provider that has no environment variable for its key;
\* with two names that are equal once normalized.
BootFiles ==
    { {},
      {Provider(sOpenai, sURLBackend, sKey, sAuthBearer, sFmtOpenai),
       Provider(sP5, sURLBackend, sKey, sAuthBearer, sFmtOpenai)},
      {Provider(sOpenai, Empty, sKey, Empty, Empty),
       Provider(sAnthropic, Empty, sKey, sAuthBearer, Empty)},
      {Provider(sOLLAMA, Empty, sKey, Empty, Empty),
       Provider(sOpenrouter, sURLBackend, Empty, Empty, Empty)},
      {Provider(sOpenAIPadded, sURLBackend, sKey, Empty, Empty),
       Provider(sOpenai, Empty, sKey, sAuthNone, Empty)} }

\* The environment: nothing set; a key; a key with white space around it; a
\* blank key; a key and a base URL; variables of the other providers.
BootEnvs ==
    { NoEnv,
      EnvWith(NoEnv, "OPENAI_API_KEY", sKey2),
      EnvWith(NoEnv, "OPENAI_API_KEY", sKey2Padded),
      EnvWith(NoEnv, "OPENAI_API_KEY", sBlank),
      EnvWith(EnvWith(NoEnv, "OPENAI_API_KEY", sKey2), "OPENAI_BASE_URL", sURLOpenai),
      EnvWith(NoEnv, "ANTHROPIC_API_KEY", sKey2),
      EnvWith(NoEnv, "OLLAMA_BASE_URL", sURLBackend),
      EnvWith(EnvWith(NoEnv, "OPENROUTER_API_KEY", sKey2), "ANTHROPIC_BASE_URL", sURLBackend) }

BootGetNames == {sOPENAI, sAnthropic, sOllama, sOpenrouter, sP5}

InitBoot ==
    /\ registry = [n \in {} |-> NoProvider]
    /\ req = [r \in Reqs |-> IdleReq]
    /\ costTracking = TRUE
    /\ InitCost
    /\ boot = "LoadFromFile"
    /\ providersJSON \in BootFiles
    /\ environ \in BootEnvs
    /\ held = {}
    /\ ui = [u \in UIReqs |-> IdleUI]
    /\ InitLocks

NextBoot ==
    \/ LoadFromFileStep
    \/ LoadFromEnvStep
    \/ \E name \in BootGetNames : RegistryGetCall(name)

SpecBoot == InitBoot /\ [][NextBoot]_vars

(***************************************************************************)
(* A client that writes to the Providers it holds.                         *)
(***************************************************************************)
AliasFile ==
    {Provider(sOpenai, sURLBackend, sKey, sAuthBearer, sFmtOpenai),
     Provider(sP5, sURLBackend, sKey, sAuthBearer, sFmtOpenai)}
AliasNames == {sOpenai, sP5}
AliasProviders ==
    {NoProvider, Provider(sP5, sURLBackend, sKey2, sAuthNone, sFmtAnthropic)}
WrittenFields == {"Name", "BaseURL", "APIKey"}

InitAlias ==
    /\ registry = [n \in {} |-> NoProvider]
    /\ req = [r \in Reqs |-> IdleReq]
    /\ costTracking = TRUE
    /\ InitCost
    /\ boot = "LoadFromFile"
    /\ providersJSON = AliasFile
    /\ environ = NoEnv
    /\ held = {}
    /\ ui = [u \in UIReqs |-> IdleUI]
    /\ InitLocks

NextAlias ==
    \/ LoadFromFileStep
    \/ LoadFromEnvStep
    \/ \E name \in AliasNames, p \in AliasProviders : RegistrySetCall(name, p)
    \/ RegistryDeleteCall(sP5)
    \/ \E name \in AliasNames : RegistryGetCall(name)
    \/ RegistryAllCall
    \/ \E field \in WrittenFields : CallerWrite(field, sZZ)

SpecAlias == InitAlias /\ [][NextAlias]_vars

(***************************************************************************)
(* Dashboard edits of the providers, NUI at a time.                        *)
(***************************************************************************)
sP5Padded == <<" ", "P", "5">>

\* The forms posted: set p5, delete p5, a blank name.
Forms ==
    { [name |-> sP5Padded, action |-> Empty, base_url |-> sURLBackend,
       auth |-> Empty, api_key |-> sKey2],
      [name |-> sP5, action |-> <<"D", "e", "l", "e", "t", "e">>,
       base_url |-> Empty, auth |-> Empty, api_key |-> Empty],
      [name |-> sBlank, action |-> Empty, base_url |-> sURLBackend,
       auth |-> Empty, api_key |-> sKey] }

\* The process serving, with providers.json as an earlier edit saved it.
InitDashboard ==
    /\ registry \in {LoadFromFile([n \in {} |-> NoProvider], entries) :
                        entries \in Orders(AliasFile)}
    /\ req = [r \in Reqs |-> IdleReq]
    /\ costTracking = TRUE
    /\ InitCost
    /\ boot = "serving"
    /\ providersJSON = AliasFile
    /\ environ = NoEnv
    /\ held = {}
    /\ ui = [u \in UIReqs |-> IdleUI]
    /\ InitLocks

NextDashboard ==
    \E u \in UIReqs :
        \/ \E form \in Forms : ProvidersPost(u, form)
        \/ handleProviderUpdate(u)
        \/ SaveToFileSnapshot(u)
        \/ SaveToFileWrite(u)
        \/ ProvidersDone(u)

SpecDashboard == InitDashboard /\ [][NextDashboard]_vars

(***************************************************************************)
(* SaveToFile, then LoadFromFile into a fresh registry.                    *)
(***************************************************************************)
SaveNames == {sOpenAIPadded, sP5}
SaveProviders ==
    {NoProvider, Provider(sZZ, sURLBackend, sKey2, sAuthNone, sFmtAnthropic)}

\* A registry with or without a directory.
InitSave ==
    /\ registry = [n \in {} |-> NoProvider]
    /\ req = [r \in Reqs |-> IdleReq]
    /\ costTracking = TRUE
    /\ InitCost
    /\ boot = "LoadFromFile"
    /\ providersJSON \in RegistryFiles
    /\ environ \in RegistryEnvs
    /\ held = {}
    /\ ui = [u \in UIReqs |-> IdleUI]
    /\ authDir \in {Empty, sAuthDir}
    /\ rmu = NoLock
    /\ gor = [g \in Goroutines |-> IdleGor]

NextSave ==
    \/ LoadFromFileStep
    \/ LoadFromEnvStep
    \/ \E name \in SaveNames, p \in SaveProviders : RegistrySetCall(name, p)
    \/ RegistryDeleteCall(sP5)
    \/ SaveToFileCall
    \/ ReloadCall

SpecSave == InitSave /\ [][NextSave]_vars

\* The registry after startup, and one call of each of its operations at
\* once: a file that replaces p5, an environment with a base URL and a key
\* for openai, a Set and a Delete of openai, a Get of it and an All.
RaceFile == {Provider(sP5, sURLBackend, sKey2, sAuthNone, sFmtAnthropic)}
RaceEnv == EnvWith(EnvWith(NoEnv, "OPENAI_BASE_URL", sURLOllama),
                   "OPENAI_API_KEY", sKey2)

InitRace ==
    /\ \E entries \in Orders(AliasFile) :
          registry = LoadFromFile([n \in {} |-> NoProvider], entries)
    /\ req = [r \in Reqs |-> IdleReq]
    /\ costTracking = TRUE
    /\ InitCost
    /\ boot = "serving"
    /\ providersJSON = RaceFile
    /\ environ = RaceEnv
    /\ held = {}
    /\ ui = [u \in UIReqs |-> IdleUI]
    /\ InitLocks

NextRace ==
    \/ GetLookup(sOpenAIPadded)
    \/ GetCopy
    \/ AllLock
    \/ AllCopy
    \/ AllReturn
    \/ LoadFromEnvLock
    \/ LoadFromEnvURL
    \/ LoadFromEnvKey
    \/ LoadFromEnvReturn
    \/ SetLocked(sOPENAI, Provider(Empty, sURLBackend, sKey, sAuthNone, Empty))
    \/ DeleteLocked(sOpenai)
    \/ LoadFromFileLocked

SpecRace == InitRace /\ [][NextRace]_vars

(***************************************************************************)
(* The functions of the cost package over their inputs.                    *)
(***************************************************************************)
PricingKeys == UNION {DOMAIN DefaultPricing[p] : p \in DOMAIN DefaultPricing}

\* Every prefix of every key, and every key with a suffix.
LookupModels ==
    UNION { {SubSeq(k, 1, n) : n \in 0..Len(k)} : k \in PricingKeys }
    \cup { k \o <<"-", "x">> : k \in PricingKeys }

LookupProviders ==
    { sAnthropic, sOpenai, sOpenrouter, sOllama, Empty,
      <<"O", "p", "e", "n", "A", "I">> }

NextLookup == \E p \in LookupProviders, m \in LookupModels : LookupCall(p, m)

SpecLookup == Init /\ [][NextLookup]_vars

\* The lines an event stream is made of.
StreamLines ==
    { sDataPrefix \o <<"{usage:{3,1}}">>,
      sDataPrefix \o <<"{usage:{5,2}}">>,
      sDataPrefix \o <<"{}">>,
      sDataPrefix \o <<"{usage:x}">>,
      sDataPrefix \o sDone,
      <<" ">> \o sDataPrefix \o <<"{usage:{c:4}}", "\r">>,
      <<"d", "a", "t", "a", ":", "{usage:{0,0}}">>,
      <<"{usage:{5,2}}">>,
      Empty }

RECURSIVE Join(_, _)
Join(lines, sep) ==
    IF lines = <<>> THEN <<>>
    ELSE IF Len(lines) = 1 THEN lines[1]
    ELSE lines[1] \o sep \o Join(Tail(lines), sep)

Streams ==
    { Join(ls, sNewline) : ls \in UNION {[1..n -> StreamLines] : n \in 0..MaxLines} }

NextExtract == \E s \in Streams : ExtractUsageFromSSECall(s)

SpecExtract == Init /\ [][NextExtract]_vars

(***************************************************************************)
(* Properties.                                                             *)
(***************************************************************************)
\* The stages in the order ServeHTTP runs them.
StageOrder ==
    << "Authenticate", "ResolveIdentity", "ValidateSecret", "ParseBody",
       "SplitModel", "ResolveProvider", "BuildUpstreamRequest",
       "InjectCredential", "Forward", "StreamRead" >>

StageIndex(name) == CHOOSE i \in 1..Len(StageOrder) : StageOrder[i] = name

\* The request q went through stage `stage` without failing in it: it is at
\* a later stage, or it ended in a later stage or completed.
Passed(q, stage) ==
    LET at == IF q.pc \in {"StreamWrite", "ExtractUsage"} THEN "StreamRead" ELSE q.pc
        failed == IF q.failedAt = "StreamResponse" THEN "StreamRead" ELSE q.failedAt
    IN  /\ q.pc # "idle"
        /\ IF q.pc = "Done"
           THEN q.failedAt = "" \/ (q.failedAt # "Method"
                                    /\ StageIndex(failed) > StageIndex(stage))
           ELSE StageIndex(at) > StageIndex(stage)

\* The request q is over with the error response (status, {"error":
\* {"message": ...}}) and made no upstream call.
Refused(q, status) ==
    /\ q.pc = "Done"
    /\ q.status = status
    /\ q.statusWrites = 1
    /\ q.errMsg # ""
    /\ q.clientBody = <<>>
    /\ q.sent = <<>>

AuthHeaderOf(q) == HeaderGet(q.in.headers, sAuthorization)

\* C1: an outbound request is sent only for a request whose bearer header
\* parsed, whose agent context loaded and whose presented secret validated
\* against the stored reference.
C1_UpstreamOnlyAfterAuth ==
    \A r \in Reqs :
        req[r].sent # <<>> =>
            LET b == ParseBearer(AuthHeaderOf(req[r]))
                c == loadContext(b.agentID)
            IN  b.ok /\ c.ok /\ validateSecret(c.token, b.agentID, b.secret)

C1_Witness ==
    \E r \in Reqs : req[r].sent # <<>> /\ req[r].agentID = cB

\* C2: no request sent upstream carries the client's Authorization value:
\* its Authorization header is absent or holds exactly the one value
\* "Bearer <api_key>" of the provider it was routed to.
C2_NoClientAuthorizationUpstream ==
    \A r \in Reqs : \A i \in 1..Len(req[r].sent) :
        LET h == req[r].sent[i].headers
        IN  \/ sAuthorization \notin DOMAIN h
            \/ /\ h[sAuthorization] = << sBearer \o <<" ">> \o req[r].prov.APIKey >>
               /\ AuthHeaderOf(req[r]) # h[sAuthorization][1]

C2_Witness ==
    \E r \in Reqs :
        /\ req[r].sent # <<>>
        /\ sAuthorization \notin DOMAIN req[r].sent[1].headers
        /\ AuthHeaderOf(req[r]) # Empty

\* The auth mode the credential switch sees.
ModeOf(prov) == ToLower(TrimSpace(prov.Auth))
HasKey(prov) == TrimSpace(prov.APIKey) # Empty

\* C3: for a provider with auth mode x-api-key and a key, the request passes
\* credential injection with the x-api-key header set to the key and no
\* Authorization header, and is forwarded.
C3_XApiKeyInjected ==
    \A r \in Reqs :
        (/\ Passed(req[r], "BuildUpstreamRequest")
         /\ req[r].pc # "InjectCredential"
         /\ ModeOf(req[r].prov) = sAuthXApiKey
         /\ HasKey(req[r].prov))
        => /\ req[r].failedAt # "InjectCredential"
           /\ sAuthorization \notin DOMAIN req[r].outReq.headers
           /\ sXApiKey \in DOMAIN req[r].outReq.headers
           /\ req[r].outReq.headers[sXApiKey] = <<req[r].prov.APIKey>>

MalformedCredential(header) ==
    LET h == TrimSpace(header)
        c == Cut(h, " ")
        token == TrimSpace(c.after)
    IN  \/ h = Empty
        \/ ~EqualFold(c.before, sBearer)
        \/ token = Empty
        \/ \A i \in 1..Len(token) : token[i] # ":"

\* The credential parses, but the agent's context does not load or the
\* presented secret does not match the stored reference.
UnverifiableAgent(header) ==
    LET b == ParseBearer(header)
        c == loadContext(b.agentID)
    IN  b.ok /\ (~c.ok \/ ~validateSecret(c.token, b.agentID, b.secret))

\* C5 as stated: a request with a malformed credential is answered 401; a
\* request whose credential parses but whose context cannot be loaded or
\* whose secret does not match is answered 403.
C5_Original ==
    \A r \in Reqs :
        LET q == req[r]
        IN  q.pc = "Done" =>
                /\ MalformedCredential(AuthHeaderOf(q)) => q.status = 401
                /\ UnverifiableAgent(AuthHeaderOf(q)) => q.status = 403

\* C5 amended: the same of a POST request (any other method is answered 405
\* before the credential is looked at).
C5_PostCredentialStatus ==
    \A r \in Reqs :
        LET q == req[r]
        IN  (q.in.method = "POST" /\ q.pc \notin {"idle", "Authenticate"}) =>
                /\ MalformedCredential(AuthHeaderOf(q)) => Refused(q, 401)
                /\ (UnverifiableAgent(AuthHeaderOf(q))
                    /\ q.pc \notin {"ResolveIdentity", "ValidateSecret"})
                       => Refused(q, 403)

C5_Witness ==
    \E r \in Reqs :
        /\ req[r].in.method = "POST"
        /\ req[r].status = 403
        /\ req[r].failedAt = "ResolveIdentity"
        /\ UnverifiableAgent(AuthHeaderOf(req[r]))

\* The model string has the shape <provider>/<upstream-model>: text on both
\* sides of its first '/'.
HasProviderShape(m) ==
    \E i \in 2..(Len(m) - 1) : m[i] = "/" /\ \A j \in 1..(i - 1) : m[j] # "/"

\* The request bodies C6 names: unreadable, not JSON, no model field, a
\* model without the shape.
BadBody(body) ==
    \/ body.kind \in {"readerr", "text"}
    \/ body.kind = "object" /\ "model" \notin DOMAIN body.fields
    \/ /\ body.kind = "object" /\ "model" \in DOMAIN body.fields
       /\ body.fields["model"].t = "str"
       /\ ~HasProviderShape(body.fields["model"].s)

\* C6: a request with a verified identity and such a body is answered 400
\* with the error JSON body and causes no upstream call.
C6_BadBodyIs400 ==
    \A r \in Reqs :
        LET q == req[r]
        IN  (/\ Passed(q, "ValidateSecret")
             /\ q.pc \notin {"ParseBody", "SplitModel"}
             /\ BadBody(q.in.body))
            => Refused(q, 400)

C6_Witness ==
    \E r \in Reqs :
        /\ Passed(req[r], "ValidateSecret")
        /\ req[r].in.body.kind = "object"
        /\ "model" \in DOMAIN req[r].in.body.fields
        /\ req[r].in.body.fields["model"] = JStr(sG)
        /\ req[r].status = 400

\* C7: a request that resolves a provider key the registry does not hold at
\* that moment ends there with 502 and no upstream call; one that resolves
\* a key the registry holds is routed with the configuration the registry
\* holds at that moment (none after a Delete, the new one after a Set).
C7_ResolveSeesRegistry ==
    [][\A r \in Reqs :
          (req[r].pc = "ResolveProvider" /\ req'[r].pc # "ResolveProvider") =>
              IF normalizeName(req[r].providerName) \in DOMAIN registry
              THEN /\ req'[r].pc = "BuildUpstreamRequest"
                   /\ req'[r].prov = registry[normalizeName(req[r].providerName)]
              ELSE Refused(req'[r], 502)]_vars

\* A request refused for "openai", which the registry held at startup, and
\* one routed with a configuration the dashboard stored.
C7_Witness ==
    /\ \E r \in Reqs :
          /\ req[r].failedAt = "ResolveProvider"
          /\ req[r].providerName = sOpenai
          /\ req[r].status = 502
    /\ \E r \in Reqs :
          /\ req[r].sent # <<>>
          /\ req[r].prov.APIKey = sKey2

\* C8: a request makes at most one outbound call attempt; after a failed
\* connection it is over with 502, after a failed streamed read or write it
\* is over, each with the one attempt made.
C8_AtMostOneAttempt ==
    \A r \in Reqs :
        LET q == req[r]
        IN  /\ Len(q.sent) <= 1
            /\ q.failedAt = "Forward" =>
                   (q.pc = "Done" /\ q.status = 502 /\ q.statusWrites = 1
                    /\ Len(q.sent) = 1)
            /\ q.streamErr => (q.pc = "Done" /\ Len(q.sent) = 1)

C8_Witness ==
    /\ \E r \in Reqs : req[r].failedAt = "Forward" /\ Len(req[r].sent) = 1
    /\ \E r \in Reqs : req[r].streamErr /\ req[r].buf # <<>>

\* The model string the client supplied, as it stands in the request body.
ClientModel(q) ==
    IF q.in.body.kind = "object" /\ "model" \in DOMAIN q.in.body.fields
    THEN q.in.body.fields["model"].s ELSE Empty

\* The request q is past model splitting, passed or refused.
SplitDone(q) ==
    Passed(q, "ValidateSecret") /\ q.pc \notin {"ParseBody", "SplitModel"}

\* C9 as stated: the client-supplied model is cut on its first '/': the
\* provider key is the lower-cased text before it, the upstream model the
\* text after it, unmodified; a model without '/' is refused with 400.
C9_Original ==
    \A r \in Reqs :
        LET q == req[r]
            c == Cut(ClientModel(q), "/")
        IN  SplitDone(q) =>
                IF c.found
                THEN Passed(q, "SplitModel") =>
                         /\ q.providerName = ToLower(c.before)
                         /\ q.upstreamModel = c.after
                ELSE Refused(q, 400)

\* C9 amended: the same of the client-supplied model with its leading and
\* trailing white space trimmed.
C9_SplitOnFirstSlashOfTrimmed ==
    \A r \in Reqs :
        LET q == req[r]
            c == Cut(TrimSpace(ClientModel(q)), "/")
        IN  SplitDone(q) =>
                IF c.found
                THEN Passed(q, "SplitModel") =>
                         /\ q.providerName = ToLower(c.before)
                         /\ q.upstreamModel = c.after
                ELSE Refused(q, 400)

\* A model with a capital in the provider and a second '/' went through.
C9_Witness ==
    \E r \in Reqs :
        /\ Passed(req[r], "SplitModel")
        /\ ClientModel(req[r]) = <<"B", "/", "/", "a">>
        /\ req[r].providerName = <<"b">>
        /\ req[r].upstreamModel = <<"/", "a">>

\* C10: the body sent upstream is the inbound JSON object with only the
\* model field replaced by the upstream model: the same keys, and under
\* every other key the same value.
C10_BodyPassthrough ==
    \A r \in Reqs : \A i \in 1..Len(req[r].sent) :
        LET out == req[r].sent[i].body
            inb == req[r].in.body.fields
        IN  /\ DOMAIN out = DOMAIN inb
            /\ out["model"] = JStr(req[r].upstreamModel)
            /\ \A k \in DOMAIN inb \ {"model"} : out[k] = inb[k]

\* The request q got an answer from the upstream.
Answered(q) == Passed(q, "Forward")

\* The request q streamed its answer to the end without error.
StreamedToEnd(q) ==
    /\ Answered(q)
    /\ q.pc \in {"ExtractUsage", "Done"}
    /\ ~q.streamErr

\* C11: a request that got an upstream response relays the upstream's status
\* unchanged, whatever it is, and the client receives the upstream's body
\* chunks unmodified and in order: a prefix of the body while streaming and
\* after a streaming error, the whole body when streaming ended.
C11_StatusAndBodyVerbatim ==
    \A r \in Reqs :
        LET q == req[r]
        IN  Answered(q) =>
                /\ q.status = q.upstream.status
                /\ q.errMsg = ""
                /\ HasPrefix(q.upstream.body, q.clientBody)
                /\ StreamedToEnd(q) => q.clientBody = q.upstream.body

C11_Witness ==
    \E r \in Reqs :
        /\ req[r].pc = "Done"
        /\ req[r].status = 500
        /\ req[r].clientBody = <<ChunkOf(1), ChunkOf(2)>>

\* C12: with a client transport that flushes, whenever the next read from
\* the upstream body is issued (and when streaming has ended), every chunk
\* read so far has been written to the client and flushed.
C12_FlushedBeforeNextRead ==
    \A r \in Reqs :
        LET q == req[r]
        IN  (q.in.flusher /\ (q.pc = "StreamRead" \/ StreamedToEnd(q))) =>
                /\ q.clientBody = q.responseBuf
                /\ q.flushed = q.clientBody

\* The first chunk is flushed to the client while the upstream body has
\* not ended.
C12_Witness ==
    \E r \in Reqs :
        /\ req[r].in.flusher
        /\ req[r].pc = "StreamRead"
        /\ req[r].flushed = <<ChunkOf(1)>>
        /\ req[r].resp.body # <<>>

\* C13: the capture buffer holds every chunk read from the upstream body:
\* what was written to the client is a prefix of it at every point, it is
\* the part of the upstream body read so far, and when streaming ended
\* without error it is the whole upstream body and what the client got.
C13_CaptureHoldsEveryByte ==
    \A r \in Reqs :
        LET q == req[r]
        IN  Answered(q) =>
                /\ HasPrefix(q.responseBuf, q.clientBody)
                /\ q.responseBuf \o q.resp.body = q.upstream.body
                /\ StreamedToEnd(q) =>
                       (q.responseBuf = q.upstream.body /\ q.responseBuf = q.clientBody)

\* A second chunk is captured and not yet written.
C13_Witness ==
    \E r \in Reqs :
        /\ req[r].pc = "StreamWrite"
        /\ req[r].responseBuf = <<ChunkOf(1), ChunkOf(2)>>
        /\ req[r].clientBody = <<ChunkOf(1)>>

\* C14: a request writes one status line and no more: a finished request
\* wrote exactly one; after a streaming error it is the upstream's, with
\* no error JSON body; a pipeline failure wrote its error status once.
C14_OneStatusLine ==
    \A r \in Reqs :
        LET q == req[r]
        IN  /\ q.statusWrites <= 1
            /\ q.pc = "Done" => q.statusWrites = 1
            /\ q.streamErr =>
                   (q.status = q.upstream.status /\ q.errMsg = "")
            /\ q.failedAt \notin {"", "StreamResponse"} =>
                   (q.statusWrites = 1 /\ q.errMsg # "" /\ q.status >= 400)

\* A write to the client failed after the first chunk had gone out.
C14_Witness ==
    \E r \in Reqs :
        /\ req[r].streamErr
        /\ req[r].buf # <<>>
        /\ req[r].clientBody # <<>>
        /\ req[r].statusWrites = 1

\* C15: a request records into the accumulator only with cost tracking on,
\* after it streamed its response to the end, and with a positive token
\* count in the extracted usage, and then once; the accumulator holds
\* nothing that no request recorded.
C15_RecordOnlyOnUsage ==
    /\ \A r \in Reqs :
          LET q == req[r]
          IN  q.records # <<>> =>
                  /\ costTracking
                  /\ StreamedToEnd(q)
                  /\ q.clientBody = q.upstream.body
                  /\ Len(q.records) = 1
                  /\ q.records[1].inputTokens = q.usage.PromptTokens
                  /\ q.records[1].outputTokens = q.usage.CompletionTokens
                  /\ (q.usage.PromptTokens > 0 \/ q.usage.CompletionTokens > 0)
    /\ (\A r \in Reqs : req[r].records = <<>>) <=> buckets = NoBuckets

\* An event stream with usage was recorded.
C15_Witness ==
    \E r \in Reqs :
        /\ req[r].records # <<>>
        /\ isSSE(req[r].upstream.headers)
        /\ buckets # NoBuckets

\* C16: a request that completed with a usage of p prompt and c completion
\* tokens (one of them positive), cost tracking on, made exactly one Record:
\* on the bucket (agent id, provider key, upstream model), with p input
\* tokens, c output tokens and the cost p * rate_in + c * rate_out per
\* million tokens at the rate pricing finds for the provider key and the
\* upstream model (zero without a rate); the bucket holds one request.
C16_OneRecordPerUsage ==
    \A r \in Reqs :
        LET q == req[r]
            m == Cut(TrimSpace(ClientModel(q)), "/")
            agent == ParseBearer(AuthHeaderOf(q)).agentID
            l == Lookup(DefaultPricing, ToLower(m.before), m.after)
            p == q.usage.PromptTokens
            c == q.usage.CompletionTokens
            costUSD == F64(0, p * l.rate.InputPerMTok + c * l.rate.OutputPerMTok)
            key == <<agent, ToLower(m.before), m.after>>
        IN  (costTracking /\ StreamedToEnd(q) /\ q.pc = "Done" /\ (p > 0 \/ c > 0)) =>
                /\ q.records = << RecordArgs(agent, ToLower(m.before), m.after,
                                             p, c, costUSD) >>
                /\ DOMAIN buckets = {key}
                /\ buckets[key] = CostEntry(p, c, costUSD, 1)

\* An event stream with usage (5, 2) for "openai/gpt-4o-mini-x", priced at
\* the rate of gpt-4o-mini.
C16_Witness ==
    \E r \in Reqs :
        /\ req[r].pc = "Done"
        /\ isSSE(req[r].upstream.headers)
        /\ req[r].upstreamModel = mGpt4oMini \o <<"-", "x">>
        /\ req[r].records # <<>>
        /\ req[r].records[1].costUSD = F64(0, 5 * 15 + 2 * 60)

\* C17: with or without cost tracking, with or without a price and a
\* parseable usage, a request that streamed to the end delivered the
\* upstream's status and body and wrote no error; a record without a price
\* has cost zero; a body that fails to parse records nothing.
C17_CostNeverChangesResponse ==
    \A r \in Reqs :
        LET q == req[r]
            miss == ~Lookup(DefaultPricing, q.providerName, q.upstreamModel).ok
            unparsed == /\ ~isSSE(q.upstream.headers)
                        /\ ExtractUsage(Flatten(q.upstream.body)).err
        IN  StreamedToEnd(q) =>
                /\ q.status = q.upstream.status
                /\ q.statusWrites = 1
                /\ q.clientBody = q.upstream.body
                /\ q.errMsg = "" /\ q.failedAt = ""
                /\ (miss /\ q.records # <<>>) => q.records[1].costUSD = FZero
                /\ unparsed => (q.records = <<>> /\ buckets = NoBuckets)

\* A usage recorded at cost zero for a provider without prices.
C17_Witness ==
    \E r \in Reqs :
        /\ req[r].pc = "Done"
        /\ req[r].providerName = sOllama
        /\ req[r].records # <<>>
        /\ req[r].records[1].costUSD = FZero
        /\ req[r].status = 200

\* The line is a data line, other than the [DONE] sentinel, whose JSON
\* payload decodes and carries a usage object.
CarriesUsage(line) ==
    /\ HasPrefix(line, sDataPrefix)
    /\ LET payload == SubSeq(line, Len(sDataPrefix) + 1, Len(line))
       IN  /\ payload # sDone
           /\ ~UnmarshalUsage(payload).err
           /\ ~UnmarshalUsage(payload).nil

UsageOfLine(line) ==
    UnmarshalUsage(SubSeq(line, Len(sDataPrefix) + 1, Len(line))).usage

\* C18 as stated: ExtractUsageFromSSE returns, without error, the usage of
\* the last line of the stream that is prefixed with "data: ", is not the
\* [DONE] sentinel and carries a usage object, and the zero usage when
\* there is no such line.
C18_Original ==
    call.fn = "ExtractUsageFromSSE" =>
        LET lines == Split(call.stream, "\n")
            idx == {i \in 1..Len(lines) : CarriesUsage(lines[i])}
            last == CHOOSE i \in idx : \A j \in idx : j <= i
        IN  /\ call.ok
            /\ call.usage = IF idx = {} THEN ZeroUsage ELSE UsageOfLine(lines[last])

\* C18 amended: the same of the lines with their leading and trailing white
\* space trimmed.
C18_LastUsageOfTrimmedLines ==
    call.fn = "ExtractUsageFromSSE" =>
        LET lines == Split(call.stream, "\n")
            idx == {i \in 1..Len(lines) : CarriesUsage(TrimSpace(lines[i]))}
            last == CHOOSE i \in idx : \A j \in idx : j <= i
        IN  /\ call.ok
            /\ call.usage = IF idx = {} THEN ZeroUsage
                            ELSE UsageOfLine(TrimSpace(lines[last]))

\* Two usage-bearing chunks and the sentinel: the second usage is returned.
C18_Witness ==
    /\ call.fn = "ExtractUsageFromSSE"
    /\ call.stream = sDataPrefix \o <<"{usage:{3,1}}", "\n">>
                     \o sDataPrefix \o <<"{usage:{5,2}}", "\n">>
                     \o sDataPrefix \o sDone
    /\ call.usage = Usage(5, 2)

\* k is a string prefix of m.
IsPrefixOf(k, m) == \E n \in 0..Len(m) : k = SubSeq(m, 1, n)

\* C19: Lookup(provider, model) returns the rate of the exact model key when
\* there is one; otherwise the rate of the longest key of that provider that
\* is a prefix of the model; and not-found when the provider is unknown or
\* no key is a prefix of the model.
C19_ExactThenLongestPrefix ==
    call.fn = "Lookup" =>
        IF call.provider \notin DOMAIN DefaultPricing THEN ~call.ok
        ELSE LET keys == DOMAIN DefaultPricing[call.provider]
                 prefixes == {k \in keys : IsPrefixOf(k, call.model)}
             IN  IF call.model \in keys
                 THEN call.ok /\ call.rate = DefaultPricing[call.provider][call.model]
                 ELSE IF prefixes = {} THEN ~call.ok
                 ELSE /\ call.ok
                      /\ \E k \in prefixes :
                            /\ \A o \in prefixes : Len(o) <= Len(k)
                            /\ call.rate = DefaultPricing[call.provider][k]

\* A model with two keys as prefixes, gpt-4o and gpt-4o-mini, priced at the
\* longer one.
C19_Witness ==
    /\ call.fn = "Lookup"
    /\ call.provider = sOpenai
    /\ call.model = mGpt4oMini \o <<"-", "x">>
    /\ call.ok
    /\ call.rate = Rate(15, 60)

\* The sum of f over the set S, in the integers.
RECURSIVE SumInt(_, _)
SumInt(S, f) ==
    IF S = {} THEN 0
    ELSE LET c == CHOOSE x \in S : TRUE IN f[c] + SumInt(S \ {c}, f)

\* The sum of the cost counts f over S, exact (no rounding).
RECURSIVE SumExact(_, _)
SumExact(S, f) ==
    IF S = {} THEN FZero
    ELSE LET c == CHOOSE x \in S : TRUE
             rest == SumExact(S \ {c}, f)
             lo == f[c].lo + rest.lo
         IN  F64(f[c].hi + rest.hi + (lo \div 2^30), lo % 2^30)

\* The callers whose call went to the bucket k.
CallsOn(k) ==
    {c \in Callers : bucketKey(caller[c].args.agentID, caller[c].args.provider,
                               caller[c].args.model) = k}

AllReturned == \A c \in Callers : caller[c].pc = "Done"

\* Under the mutex the three integer totals of every bucket are the sums over
\* the calls, whatever the interleaving.
IntegerTotalsEqualSums ==
    AllReturned =>
        \A k \in DOMAIN buckets :
            /\ buckets[k].TotalInputTokens
                 = SumInt(CallsOn(k), [c \in Callers |-> caller[c].args.inputTokens])
            /\ buckets[k].TotalOutputTokens
                 = SumInt(CallsOn(k), [c \in Callers |-> caller[c].args.outputTokens])
            /\ buckets[k].RequestCount = Cardinality(CallsOn(k))

\* C20 as stated: once every concurrent Record call has returned, each
\* bucket's input tokens, output tokens, cost and request count equal the
\* sums over the calls made on its key (the cost: the float64 nearest to the
\* sum), in any interleaving and order.
C20_TotalsEqualSums ==
    AllReturned =>
        \A k \in DOMAIN buckets :
            /\ buckets[k].TotalInputTokens
                 = SumInt(CallsOn(k), [c \in Callers |-> caller[c].args.inputTokens])
            /\ buckets[k].TotalOutputTokens
                 = SumInt(CallsOn(k), [c \in Callers |-> caller[c].args.outputTokens])
            /\ buckets[k].RequestCount = Cardinality(CallsOn(k))
            /\ buckets[k].TotalCostUSD
                 = RoundFloat64(SumExact(CallsOn(k), [c \in Callers |-> caller[c].args.costUSD]))

\* a <= b for two float64 cost counts.
FLeq(a, b) == a.hi < b.hi \/ (a.hi = b.hi /\ a.lo <= b.lo)

\* No bucket is ever removed and no request count ever decreases.
BucketsKeptAndCounted ==
    [][\A k \in DOMAIN buckets :
          /\ k \in DOMAIN buckets'
          /\ buckets'[k].RequestCount >= buckets[k].RequestCount]_vars

\* C21 as stated: in every step of the process, every bucket stays, and its
\* input tokens, output tokens, cost and request count do not decrease.
C21_TotalsNeverDecrease ==
    [][\A k \in DOMAIN buckets :
          /\ k \in DOMAIN buckets'
          /\ buckets'[k].TotalInputTokens >= buckets[k].TotalInputTokens
          /\ buckets'[k].TotalOutputTokens >= buckets[k].TotalOutputTokens
          /\ FLeq(buckets[k].TotalCostUSD, buckets'[k].TotalCostUSD)
          /\ buckets'[k].RequestCount >= buckets[k].RequestCount]_vars

\* The entries of agent a in the accumulator state bs.
EntriesOf(bs, a) == {EntryOf(bs, k) : k \in {x \in DOMAIN bs : x[1] = a}}

\* out holds exactly the entries of S, each once, in ascending order of
\* Provider/Model.
SortedSnapshot(out, S) ==
    /\ Len(out) = Cardinality(S)
    /\ {out[i] : i \in DOMAIN out} = S
    /\ \A i, j \in DOMAIN out : i < j => sortLess(out[i], out[j])

C23_Original ==
    call.fn = "ParseBearer" =>
        /\ call.ok
        /\ call.gotID = call.id
        /\ call.gotSecret = call.secret

\* C23 amended: the same for an id that does not begin and a secret that
\* does not end with white space.
C23_RoundTripOfTrimmedToken ==
    (/\ call.fn = "ParseBearer"
     /\ ~IsSpace(call.id[1])
     /\ ~IsSpace(call.secret[Len(call.secret)])) =>
        /\ call.ok
        /\ call.gotID = call.id
        /\ call.gotSecret = call.secret

\* A secret that holds the separator twice, recovered whole.
C23_Witness ==
    /\ call.fn = "ParseBearer"
    /\ call.id = <<"a", "a">>
    /\ call.secret = <<":", "s", ":">>
    /\ call.ok
    /\ call.gotID = <<"a", "a">>
    /\ call.gotSecret = <<":", "s", ":">>

\* For a stored secret without the separator and without white space at its
\* start, every form of the reference accepts exactly the stored secret.
EveryFormAcceptsPlainSecret ==
    (/\ call.fn = "validateSecret"
     /\ ~Contains(call.storedSecret, <<":">>)
     /\ ~IsSpace(call.storedSecret[1])) =>
        call.accepted = (call.presentedSecret = call.storedSecret)

\* C24 as stated: for every secret ParseBearer can produce, validateSecret
\* gives the presented secret the same result for every form of the stored
\* reference: bare or 'agent:secret', with or without a 'bearer ' marker in
\* any letter case.
C24_SameResultInEveryForm ==
    call.fn = "validateSecret" =>
        \A t \in StoredForms(call.agentID, call.storedSecret) :
            validateSecret(t, call.agentID, call.presentedSecret) = call.accepted

\* The comparison read byte by byte returns what constantTimeEqual returns.
CompareStepsAgree ==
    (call.fn = "constantTimeEqual" /\ call.pc = "returned") =>
        call.result = constantTimeEqual(call.a, call.b)

\* C25: for two secrets of equal length the comparison reads every byte
\* before it returns, whatever their content; only a length mismatch
\* returns without reading any.
C25_NoEarlyExit ==
    (call.fn = "constantTimeEqual" /\ call.pc = "returned") =>
        call.examined = IF Len(call.a) = Len(call.b) THEN Len(call.a) ELSE 0

\* Two secrets of equal length that differ in their first byte, compared to
\* the end.
C25_Witness ==
    /\ call.fn = "constantTimeEqual"
    /\ call.pc = "returned"
    /\ call.a = <<"s", "s", "s">>
    /\ call.b = <<"t", "s", "s">>
    /\ call.examined = 3
    /\ ~call.result

(***************************************************************************)
(* The registry's names.                                                   *)
(***************************************************************************)
\* Names a client may look up.
ProbeNames == SetNames \cup DeleteNames \cup GetNames \cup
              {sOpenai, sAnthropic, sOllama, sOpenrouter}

\* At most one provider per normalized name: every key is its own
\* normalization, is not empty, and is the Name of the provider it holds.
OneProviderPerNormalizedName ==
    /\ \A k1, k2 \in DOMAIN registry :
          normalizeName(k1) = normalizeName(k2) => k1 = k2
    /\ \A k \in DOMAIN registry :
          k = normalizeName(k) /\ k # Empty /\ registry[k].Name = k

\* Names that are equal once trimmed and lower-cased get the same answer.
GetIgnoresCaseAndPadding ==
    \A n1, n2 \in ProbeNames :
        normalizeName(n1) = normalizeName(n2) =>
            RegistryGet(registry, n1) = RegistryGet(registry, n2)

\* A Get answers with the provider the registry holds for the name, and
\* with an error when it holds none.
GetFindsOrFails ==
    call.fn = "Get" =>
        IF \E k \in DOMAIN registry : normalizeName(k) = normalizeName(call.name)
        THEN call.ok /\ call.prov \in {registry[k] : k \in DOMAIN registry}
                     /\ normalizeName(call.prov.Name) = normalizeName(call.name)
        ELSE ~call.ok

\* C26: after any sequence of loads, Sets and Deletes the registry holds at
\* most one provider per normalized name, Get answers alike for names that
\* are equal after trimming and lower-casing, and Get of a name that is not
\* present returns an error.
C26_UniqueCaseInsensitiveNames ==
    /\ OneProviderPerNormalizedName
    /\ GetIgnoresCaseAndPadding
    /\ GetFindsOrFails

\* Get("OPENAI") returns the provider that Set(" OpenAI ", p) stored.
C26_Witness ==
    /\ call.fn = "Get"
    /\ call.name = sOPENAI
    /\ call.ok
    /\ call.prov = Provider(sOpenai, sURLBackend, sKey2, sAuthNone, sFmtAnthropic)

(***************************************************************************)
(* The defaults of Set.                                                    *)
(***************************************************************************)
\* C27: after Set(name, p), Get(name) returns the auth, format and base URL
\* the caller set, and for those left empty: auth none for ollama, auth
\* x-api-key and format anthropic for anthropic, auth bearer and format
\* openai for every other name, and the well-known base URL of a well-known
\* name; the API key is stored as given.
C27_SetFillsDefaults ==
    (call.fn = "Set" /\ normalizeName(call.name) # Empty) =>
        LET n == normalizeName(call.name)
            p == call.p
            g == RegistryGet(registry, call.name)
        IN  /\ g.ok
            /\ g.prov.APIKey = p.APIKey
            /\ p.Auth # Empty => g.prov.Auth = p.Auth
            /\ p.APIFormat # Empty => g.prov.APIFormat = p.APIFormat
            /\ p.BaseURL # Empty => g.prov.BaseURL = p.BaseURL
            /\ (p.Auth = Empty /\ n = sOllama) => g.prov.Auth = sAuthNone
            /\ (p.Auth = Empty /\ n = sAnthropic) => g.prov.Auth = sAuthXApiKey
            /\ (p.Auth = Empty /\ n \notin {sOllama, sAnthropic}) =>
                   g.prov.Auth = sAuthBearer
            /\ (p.APIFormat = Empty /\ n = sAnthropic) =>
                   g.prov.APIFormat = sFmtAnthropic
            /\ (p.APIFormat = Empty /\ n \notin {sOllama, sAnthropic}) =>
                   g.prov.APIFormat = sFmtOpenai
            /\ (p.BaseURL = Empty /\ n = sOpenai) => g.prov.BaseURL = sURLOpenai
            /\ (p.BaseURL = Empty /\ n = sAnthropic) =>
                   g.prov.BaseURL = sURLAnthropic
            /\ (p.BaseURL = Empty /\ n = sOllama) => g.prov.BaseURL = sURLOllama

\* Set("Anthropic", &Provider{}) has stored the defaults of anthropic.
C27_Witness ==
    /\ call.fn = "Set"
    /\ call.name = sAnthropicCap
    /\ call.p = NoProvider
    /\ registry[sAnthropic] =
          Provider(sAnthropic, sURLAnthropic, Empty, sAuthXApiKey, sFmtAnthropic)

(***************************************************************************)
(* The environment over the file.                                          *)
(***************************************************************************)
\* The variables of map m that are set to a value that is not blank.
EnvSet(m) == {k \in DOMAIN m : TrimSpace(environ[k]) # Empty}

\* Once both loads are done, the fields that no variable of the environment
\* sets are the ones LoadFromFile stored, and the environment adds only the
\* providers it names.
FileValuesKept ==
    call.fn = "LoadFromEnv" =>
        /\ DOMAIN registry =
              DOMAIN call.loaded \cup {envKeyMap[k] : k \in EnvSet(envKeyMap)}
                                 \cup {envBaseURLMap[k] : k \in EnvSet(envBaseURLMap)}
        /\ \A n \in DOMAIN call.loaded :
              /\ registry[n].Name = call.loaded[n].Name
              /\ registry[n].Auth = call.loaded[n].Auth
              /\ registry[n].APIFormat = call.loaded[n].APIFormat
              /\ n \notin {envKeyMap[k] : k \in EnvSet(envKeyMap)} =>
                    registry[n].APIKey = call.loaded[n].APIKey
              /\ n \notin {envBaseURLMap[k] : k \in EnvSet(envBaseURLMap)} =>
                    registry[n].BaseURL = call.loaded[n].BaseURL

\* C28 as stated: after both loads Get returns, for every variable set to
\* a value that is not blank, that value itself.
C28_Original ==
    boot = "serving" =>
        /\ \A k \in EnvSet(envKeyMap) :
              /\ RegistryGet(registry, envKeyMap[k]).ok
              /\ RegistryGet(registry, envKeyMap[k]).prov.APIKey = environ[k]
        /\ \A k \in EnvSet(envBaseURLMap) :
              /\ RegistryGet(registry, envBaseURLMap[k]).ok
              /\ RegistryGet(registry, envBaseURLMap[k]).prov.BaseURL = environ[k]
        /\ FileValuesKept

\* C28: after LoadFromFile and LoadFromEnv, for every API-key or base-URL
\* variable set to a value that is not blank, Get of its provider returns
\* the value with the white space around it trimmed, whatever the file
\* held; the fields no variable sets keep the value of the file.
C28_TrimmedEnvWinsOverFile ==
    boot = "serving" =>
        /\ \A k \in EnvSet(envKeyMap) :
              /\ RegistryGet(registry, envKeyMap[k]).ok
              /\ RegistryGet(registry, envKeyMap[k]).prov.APIKey =
                    TrimSpace(environ[k])
        /\ \A k \in EnvSet(envBaseURLMap) :
              /\ RegistryGet(registry, envBaseURLMap[k]).ok
              /\ RegistryGet(registry, envBaseURLMap[k]).prov.BaseURL =
                    TrimSpace(environ[k])
        /\ FileValuesKept

\* The file held a key and a base URL for openai, the environment sets
\* another key, and the loads are done.
C28_Witness ==
    /\ call.fn = "LoadFromEnv"
    /\ boot = "serving"
    /\ environ["OPENAI_API_KEY"] = sKey2
    /\ sOpenai \in DOMAIN call.loaded
    /\ call.loaded[sOpenai].APIKey = sKey
    /\ registry[sOpenai].APIKey = sKey2
    /\ registry[sOpenai].BaseURL = sURLBackend

(***************************************************************************)
(* Defensive copies.                                                       *)
(***************************************************************************)
\* No pointer a caller holds points into the registry.
HeldAreCopies == \A cell \in held : cell.alias = Empty

\* C29: a caller's write to a field of a Provider it got from Get or All,
\* or passed to Set, changes nothing of what Get, All and SaveToFile
\* observe afterwards.
C29_CallerWritesLeaveRegistry ==
    [][call'.fn = "write" =>
          /\ RegistryAll(registry') = RegistryAll(registry)
          /\ SaveSnapshot(registry') = SaveSnapshot(registry)
          /\ \A n \in AliasNames :
                RegistryGet(registry', n) = RegistryGet(registry, n)]_vars

\* The caller has overwritten the key of the Provider Get("openai") gave
\* it; the registry still holds the key it had.
C29_Witness ==
    /\ call.fn = "write"
    /\ \E cell \in held : cell.val.Name = sOpenai /\ cell.val.APIKey = sZZ
    /\ sOpenai \in DOMAIN registry
    /\ registry[sOpenai].APIKey = sKey

(***************************************************************************)
(* Persistence of the dashboard's edits.                                   *)
(***************************************************************************)
\* C30: when every edit of the providers has completed, providers.json
\* holds exactly the providers the registry holds.
C30_FileHoldsRegistry ==
    (\A u \in UIReqs : ui[u].pc \in {"idle", "done"}) =>
        providersJSON = SaveSnapshot(registry)

(***************************************************************************)
(* The round trip through providers.json.                                  *)
(***************************************************************************)
\* C31: with a directory configured, the registry that LoadFromFile builds
\* from what SaveToFile wrote answers every Get as the saved registry
\* does: same name, base_url, api_key, auth and api_format; without a
\* directory SaveToFile fails and leaves the file as it was.
C31_SaveLoadRoundTrip ==
    /\ call.fn = "Reload" =>
          /\ DOMAIN call.loaded = DOMAIN call.saved
          /\ \A n \in ProbeNames :
                RegistryGet(call.loaded, n) = RegistryGet(call.saved, n)
    /\ call.fn = "SaveToFile" =>
          /\ call.err <=> authDir = Empty
          /\ call.err => providersJSON = call.before

\* A provider saved with a format and an auth that are not its defaults
\* has come back.
C31_Witness ==
    /\ call.fn = "Reload"
    /\ sP5 \in DOMAIN call.loaded
    /\ call.loaded[sP5] = Provider(sP5, sURLBackend, sKey2, sAuthNone, sFmtAnthropic)
    /\ call.before # providersJSON

(***************************************************************************)
(* The audit log.                                                          *)
(***************************************************************************)
\* The terminal entries among the entries es.
Terminal(es) == {i \in DOMAIN es : es[i].Type \in {"response", "error"}}

\* C33: every response or error entry of a request comes after a request
\* entry of that request.
C33_RequestEntryFirst ==
    \A r \in Reqs : \A i \in Terminal(req[r].audit) :
        \E j \in 1..(i - 1) : req[r].audit[j].Type = "request"

\* C34: a request that is over has logged exactly one terminal entry, as
\* its last entry: after a failure an error entry with the latency and the
\* status the client got, after a complete response a response entry; a
\* request still under way has logged none.
C34_OneTerminalEntry ==
    \A r \in Reqs :
        LET q == req[r]
            es == q.audit
        IN  /\ q.pc # "Done" => Terminal(es) = {}
            /\ q.pc = "Done" =>
                  /\ Terminal(es) = {Len(es)}
                  /\ es[Len(es)].ClawID = q.agentID
                  /\ es[Len(es)].Model = q.requestedModel
                  /\ es[Len(es)].StatusCode = q.status
                  /\ es[Len(es)].hasLatency
                  /\ es[Len(es)].Type = "error" <=> q.failedAt # ""
                  /\ es[Len(es)].Type = "response" <=> q.failedAt = ""

\* A refused request, a request whose stream broke and a completed one
\* have each logged their entry.
C34_Witness ==
    /\ req[1].pc = "Done"
    /\ req[1].failedAt = "StreamResponse"
    /\ req[1].status = 200
    /\ req[1].audit = << LogRequest(req[1].agentID, req[1].requestedModel),
                         LogError(req[1].agentID, req[1].requestedModel, 200) >>

\* C35: with cost tracking, the response entry of a request whose usage was
\* recorded is the one LogResponseWithCost writes for the recorded token
\* counts and cost.
C35_TerminalEntryCarriesCost ==
    \A r \in Reqs :
        LET q == req[r]
        IN  (costTracking /\ q.pc = "Done" /\ q.failedAt = "" /\ q.records # <<>>) =>
                q.audit[Len(q.audit)] =
                    LogResponseWithCost(q.agentID, q.requestedModel, q.status,
                        [InputTokens |-> q.records[1].inputTokens,
                         OutputTokens |-> q.records[1].outputTokens,
                         CostUSD |-> q.records[1].costUSD])

(***************************************************************************)
(* Locks and network calls.                                                *)
(***************************************************************************)
\* The request is in client.Do or in streamBody.
InNetworkIO(q) == q.pc \in {"Forward", "StreamRead", "StreamWrite"}

\* C32: a request in its outbound call or streaming its response holds no
\* lock, and while any request is there the registry's lock and the
\* accumulator's mutex are free: a Set, a Delete, a Get or a Record that
\* starts can complete.
C32_NoLockAcrossNetworkIO ==
    /\ \A r \in Reqs : InNetworkIO(req[r]) => req[r].locks = {}
    /\ (\E r \in Reqs : InNetworkIO(req[r])) => registryFree /\ accumulatorFree

\* One request is streaming and the other, which arrived meanwhile, has
\* resolved its provider and is in its outbound call; the dashboard has
\* replaced the provider both were routed to.
C32_Witness ==
    /\ req[1].pc = "StreamWrite"
    /\ req[2].pc = "Forward"
    /\ req[1].prov # req[2].prov
    /\ registryFree

(***************************************************************************)
(* The order of the stages.                                                *)
(***************************************************************************)
\* The first stage of StageOrder whose check fails on the request `in`
\* against the providers, with the status of its refusal; "Forward" when
\* every check before the outbound call succeeds.
FirstFailure(in, providers) ==
    LET b == ParseBearer(HeaderGet(in.headers, sAuthorization))
        c == loadContext(b.agentID)
        u == Unmarshal(in.body)
        model == TrimSpace(ModelField(u.payload))
        m == splitModel(model)
        g == RegistryGet(providers, m.providerName)
        t == buildUpstreamURL(g.prov.BaseURL, in.path, in.query)
        k == injectCredential(g.prov, copyRequestHeaders(in.headers))
    IN  IF ~b.ok THEN [stage |-> "Authenticate", status |-> 401]
        ELSE IF ~c.ok THEN [stage |-> "ResolveIdentity", status |-> 403]
        ELSE IF ~validateSecret(c.token, b.agentID, b.secret)
        THEN [stage |-> "ValidateSecret", status |-> 403]
        ELSE IF in.body.kind = "readerr" \/ ~u.ok \/ model = Empty
        THEN [stage |-> "ParseBody", status |-> 400]
        ELSE IF ~m.ok THEN [stage |-> "SplitModel", status |-> 400]
        ELSE IF ~g.ok THEN [stage |-> "ResolveProvider", status |-> 502]
        ELSE IF ~t.ok THEN [stage |-> "BuildUpstreamRequest", status |-> 502]
        ELSE IF ~k.ok THEN [stage |-> "InjectCredential", status |-> 502]
        ELSE [stage |-> "Forward", status |-> 0]

\* What each stage leaves in the request when it runs and succeeds.
StageFields(stage) ==
    CASE stage = "Authenticate" -> {"agentID", "secret"}
      [] stage = "ResolveIdentity" -> {"token"}
      [] stage = "ParseBody" -> {"payload", "requestedModel"}
      [] stage = "SplitModel" -> {"providerName", "upstreamModel"}
      [] stage = "ResolveProvider" -> {"prov"}
      [] stage = "BuildUpstreamRequest" -> {"outReq"}
      [] stage = "Forward" -> {"sent", "resp"}
      [] OTHER -> {}

\* No stage after `stage` has run for q.
NothingAfter(q, stage) ==
    \A i \in (StageIndex(stage) + 1)..Len(StageOrder) :
        \A f \in StageFields(StageOrder[i]) : q[f] = IdleReq[f]

C40_RecordedUnderRegistryName ==
    \A r \in Reqs : \A i \in DOMAIN req[r].records :
        LET q == req[r]
        IN  /\ q.records[i].provider = q.prov.Name
            /\ q.records[i] = recordArgs([q EXCEPT !.providerName = q.prov.Name],
                                         q.usage)

(***************************************************************************)
(* Concurrent dashboard updates.                                           *)
(***************************************************************************)
\* C39: when every dashboard update in flight has been answered with the
\* redirect, each provider of the registry is in providers.json with the
\* fields the registry holds, and the file names no other provider.
C39_NoCompletedUpdateMissing ==
    (\A u \in UIReqs : ui[u].pc = "done" /\ ui[u].status = 303) =>
        /\ {e.Name : e \in providersJSON} = DOMAIN registry
        /\ \A e \in providersJSON :
              e.Name \in DOMAIN registry =>
                  e = [registry[e.Name] EXCEPT !.Name = e.Name]

(***************************************************************************)
(* Cancellation.                                                           *)
(***************************************************************************)
\* What the client has been sent.
ClientSide(q) == <<q.status, q.statusWrites, q.errMsg, q.clientBody, q.flushed>>

\* C36: the step in which a call of the handler returns the error of a
\* cancelled request writes nothing to the client once that call has
\* returned, and neither that step after it nor any later one makes an
\* upstream call.
C36_NothingAfterCancelObserved ==
    [][\A r \in Reqs :
          /\ (req[r].cancelled /\ req'[r].observed) =>
                ClientSide(req'[r]) = ClientSide(req[r])
          /\ req[r].observed => req'[r].sent = req[r].sent]_vars

(***************************************************************************)
(* Readers beside writers.                                                 *)
(***************************************************************************)
\* C38: what Get returns for a name, and what All returns for each name,
\* is a value the registry held for that name at some instant of the call.
C38_ReadsAreSnapshots ==
    /\ gor["Get"].pc = "done" =>
          IF gor["Get"].ok THEN gor["Get"].got \in gor["Get"].seen
          ELSE NoProvider \in gor["Get"].seen
    /\ gor["All"].pc = "done" =>
          \A n \in DOMAIN gor["All"].all : gor["All"].all[n] \in gor["All"].seenAll[n]

====
